---- MODULE Spec2Model ----
(***************************************************************************)
(* otomai: the listing-backrun scanner (ListingBackrunStrategy.run), its   *)
(* candidate tasks (_process_candidate_symbol, _process_signal) and the    *)
(* per-symbol lifecycle tasks of the base Strategy (monitor_position =     *)
(* monitor_position_opening ; monitor_position_closing), running on one    *)
(* asyncio event loop against an exchange, a notifier and a database.      *)
(*                                                                         *)
(* asyncio is cooperative: a coroutine runs from one await that suspends   *)
(* to the next one, and only then may another coroutine run.  The variable *)
(* cpu names the coroutine that is in the middle of such a run (IDLE when  *)
(* the event loop is free to pick any ready coroutine).  The exchange is   *)
(* an external party: its actions are enabled whatever cpu is.             *)
(*                                                                         *)
(* Spec and SpecReadyFirst are the listing-backrun program.  SpecCalls is  *)
(* one call of a function (core/utils.py, the signal predicates of the     *)
(* strategies, _open_position_order, the diff of a scanner tick, the       *)
(* notifier, the iteration of the daily RSI strategy, create_order, the    *)
(* parameter models, the record of a closed position) on arguments drawn   *)
(* from bounded sets.  SpecSupervisors is the run loop of the MRAT z-score *)
(* and of the daily RSI strategy, with the monitors the MRAT loop creates. *)
(* SpecFetchAll is one call of fetch_all_symbols_ohlcv with its semaphore  *)
(* and the tasks of gather.                                                *)
(***************************************************************************)
EXTENDS Integers, Sequences, FiniteSets, TLC

(* ------------------------------ bounds -------------------------------- *)
\* symbols the exchange may list
NSymbols == 2
\* candidate symbols the scanner announces in one run of the program
MaxTasks == 2
\* exchange timestamps run from 0 to MaxClock (seconds, as truncated by
\* get_ts_in_ms_from_date)
MaxClock == 1
\* wall time one iteration of the opening loop takes (sleep(1) plus the
\* exchange round trip) is sampled in ClockStep seconds
ClockStep == 300
\* closed positions the exchange keeps per symbol in its history
MaxCloses == 1

(* -------------------------- program constants ------------------------- *)
\* TradingParams.max_simultaneous_positions (default)
max_simultaneous_positions == 1
\* monitor_position_opening(symbol, order_timeout: int = 600)
order_timeout_default == 600
\* await asyncio.sleep(1) of the opening loop
opening_sleep == 1
\* sleep_time = 60 of the closing loop
sleep_time == 60
\* ListingBackrunStrategyParams.ohlcv_window (default)
ohlcv_window == 1
\* ListingBackrunStrategyParams thresholds (defaults), in tenths of a percent
short_price_volatility_threshold == -200
long_price_volatility_threshold == 200
short_btc_volatility_threshold == -3
long_btc_volatility_threshold == 3
volume_usdt_btc_prop_threshold == 5

(* ------------------------------ values -------------------------------- *)
Symbols == 1..NSymbols
IDLE == -1
SCANNER == 0
NoPosition == -1

\* a value of the exchange's position record, with the text Python's str()
\* gives for it
NULL == [kind |-> "NoneType", repr |-> "None"]
NetProfits == {[kind |-> "str", repr |-> "3.5"],
               [kind |-> "float", repr |-> "-1.25"]}

\* OrderSide
BUY == "buy"
SELL == "sell"
NONE == "none"

VARIABLES
    \* the exchange
    positions,          \* symbol -> ctime (ms) of the open position, or NoPosition
    open_orders,        \* symbol -> number of open orders
    positions_history,  \* symbol -> sequence of closed positions [ctime, netProfit]
    clock,              \* the current second of the wall clock
    \* the database table: the Position items, in insertion order
    database,
    \* the event loop
    cpu,
    \* ListingBackrunStrategy.run
    run_pc, exchange_symbols, exchange_new_symbols, open_positions,
    available,          \* what position_opening_available returned last
    \* the tasks created with asyncio.create_task, in creation order
    tasks,
    \* the strategy that runs (its KIND), and the failing iterations of its
    \* run loop in a row
    strategy, failures,
    \* one call of a function of the program: its arguments and its result
    call

vars == <<positions, open_orders, positions_history, clock, database, cpu,
          run_pc, exchange_symbols, exchange_new_symbols, open_positions,
          available, tasks, strategy, failures, call>>

exchange_vars == <<positions, open_orders, positions_history, clock>>
run_vars == <<run_pc, exchange_symbols, exchange_new_symbols, open_positions,
              available>>

\* run has not ended (when it ends asyncio.run cancels every pending task and
\* the process is over)
Running == run_pc # "exited"

(* ------------------------------ helpers ------------------------------- *)
RECURSIVE SumOver(_, _)
SumOver(f, S) == IF S = {} THEN 0
                 ELSE LET x == CHOOSE y \in S : TRUE
                      IN  f[x] + SumOver(f, S \ {x})

\* len(session.fetch_positions()): the open positions of the account
fetch_positions == Cardinality({s \in Symbols : positions[s] # NoPosition})

\* len(session.fetch_open_orders()): the open orders of the account
fetch_open_orders == SumOver(open_orders, Symbols)

\* session.fetch_position(symbol): non-empty iff a position is open on it
fetch_position(symbol) == positions[symbol] # NoPosition

\* session.fetch_positions_history(symbols=[symbol], since=since): the closed
\* positions of the symbol created at or after since
fetch_positions_history(symbol, since) ==
    SelectSeq(positions_history[symbol], LAMBDA r : r.ctime >= since)

\* mutant: the gate compares with <= (one position too many)
position_opening_available_le(n_positions, n_orders, max) ==
    n_positions + n_orders <= max

\* Strategy.position_opening_available, from the two counts the exchange reported
position_opening_available(n_positions, n_orders, max) ==
    n_positions + n_orders < max

(* ----------------------- listing-backrun signals ---------------------- *)
\* rows of the frame _fetch_symbol_data returns (tenths of a percent)
Rows == [vol_open_low : {-250, 0}, vol_open_high : {0, 250},
         btc_vol : {-5, 0, 5}, volume_usdt_btc_prop : {0, 600}]

\* the frames a fetch may return: at most ohlcv_window rows, none when every
\* candle is a ghost candle
Frames == UNION {[1..n -> Rows] : n \in 0..ohlcv_window}

\* mutant: the price test of the SELL predicate is strict
sell_signal_strict(row, short_price, short_btc, volume_prop) ==
    /\ row.vol_open_low < short_price
    /\ row.btc_vol >= short_btc
    /\ row.volume_usdt_btc_prop >= volume_prop

\* _is_sell_signal(row, short_price_volatility_threshold,
\*                 short_btc_volatility_threshold, volume_usdt_btc_prop_threshold)
sell_signal(row, short_price, short_btc, volume_prop) ==
    /\ row.vol_open_low <= short_price
    /\ row.btc_vol >= short_btc
    /\ row.volume_usdt_btc_prop >= volume_prop

\* _is_buy_signal(row, long_price_volatility_threshold,
\*                long_btc_volatility_threshold, volume_usdt_btc_prop_threshold)
buy_signal(row, long_price, long_btc, volume_prop) ==
    /\ row.vol_open_high >= long_price
    /\ row.btc_vol <= long_btc
    /\ row.volume_usdt_btc_prop >= volume_prop

\* the two predicates as _check_signals calls them, with strategy_params
is_sell_signal(row) ==
    sell_signal(row, short_price_volatility_threshold,
                short_btc_volatility_threshold, volume_usdt_btc_prop_threshold)

is_buy_signal(row) ==
    buy_signal(row, long_price_volatility_threshold,
               long_btc_volatility_threshold, volume_usdt_btc_prop_threshold)

\* mutant: the BUY predicate is evaluated first
check_signals_buy_first(row) ==
    IF is_buy_signal(row) THEN BUY
    ELSE IF is_sell_signal(row) THEN SELL
    ELSE NONE

\* _check_signals: SELL is evaluated first
check_signals(row) ==
    IF is_sell_signal(row) THEN SELL
    ELSE IF is_buy_signal(row) THEN BUY
    ELSE NONE

(* ------------------------------- tasks -------------------------------- *)
NoMessages == [posted |-> 0, opened |-> 0, timeout |-> 0, closed |-> 0, kpis |-> 0]

\* one create_task(_process_candidate_symbol(symbol)) and the lifecycle task
\* it may spawn
\*   cpc: none (no candidate: the monitor was created by another run),
\*        ready (created, not started), eval (spinning in the while loop),
\*        posted (in send_message of _process_signal), kpis (final message
\*        sent: the task returns when that send_message is over), failed
\*        (left by an exception)
\*   lpc: none (not spawned), spawned (created, not started), opening (in
\*        sleep(1)), opening_notified (in send_message of
\*        monitor_position_opening), closing (in sleep(sleep_time)), done
\*        (Position inserted, closing message sent: the task returns when
\*        that send_message is over), failed (left by the RuntimeError)
\*   order: open_future_order returned an order
\*   calls: the exchange calls made for the lifecycle so far
NewTask(symbol) ==
    [symbol |-> symbol, cpc |-> "ready", lpc |-> "none",
     order |-> FALSE, open_date |-> 0, elapsed |-> 0, open_position |-> FALSE,
     calls |-> {}, inserts |-> 0, sent |-> NoMessages]

Tasks == 1..Len(tasks)

\* no coroutine is running: the event loop may start a task that was created
\* or resume a coroutine whose sleep or send_message is over, in any order
EventLoopFree == cpu = IDLE

\* no function call under study
NoCall == [function |-> "none"]

\* what the listing-backrun program leaves alone
other_vars == <<strategy, failures, call>>

(* ------------------------------- Init --------------------------------- *)
\* the account and the table when the program starts
InitExchange ==
    /\ positions = [s \in Symbols |-> NoPosition]
    /\ open_orders = [s \in Symbols |-> 0]
    /\ positions_history = [s \in Symbols |-> <<>>]
    /\ clock = 0
    /\ database = <<>>

\* asyncio.run(runner.run()) has created the coroutine of run, nothing ran
InitRun ==
    /\ cpu = IDLE
    /\ run_pc = "start"
    /\ exchange_symbols = {}
    /\ exchange_new_symbols = {}
    /\ open_positions = 0
    /\ available = "not called"
    /\ tasks = <<>>

Init ==
    /\ InitExchange
    /\ InitRun
    /\ strategy = "ListingBackrunStrategy"
    /\ failures = 0
    /\ call = NoCall

(* --------------------------- the exchange ----------------------------- *)
\* the clock reaches the next second; a second in which no position was
\* created is one no date is ever compared with
Tick ==
    /\ Running
    /\ clock < MaxClock
    /\ \E s \in Symbols :
          \/ positions[s] = clock * 1000
          \/ \E i \in 1..Len(positions_history[s]) :
                 positions_history[s][i].ctime = clock * 1000
    /\ clock' = clock + 1
    /\ UNCHANGED <<positions, open_orders, positions_history, database, cpu,
                   run_vars, tasks>>
    /\ UNCHANGED other_vars

\* an open order is filled: it opens the position of its symbol, or merges
\* into the one already open
ExchangeFill(s) ==
    /\ Running
    /\ open_orders[s] > 0
    /\ open_orders' = [open_orders EXCEPT ![s] = @ - 1]
    /\ positions' = [positions EXCEPT ![s] = IF @ = NoPosition THEN clock * 1000 ELSE @]
    /\ UNCHANGED <<positions_history, clock, database, cpu, run_vars, tasks>>
    /\ UNCHANGED other_vars

InsertAt(seq, i, e) == SubSeq(seq, 1, i - 1) \o <<e>> \o SubSeq(seq, i, Len(seq))

\* the take-profit / stop-loss of the exchange closes the position; the
\* exchange reports the net profit of the closed position at once or later
ExchangeClose(s) ==
    /\ Running
    /\ positions[s] # NoPosition
    /\ Len(positions_history[s]) < MaxCloses
    /\ \E np \in NetProfits \cup {NULL}, i \in 1..(Len(positions_history[s]) + 1) :
          positions_history' = [positions_history EXCEPT ![s] =
              InsertAt(@, i, [ctime |-> positions[s], netProfit |-> np])]
    /\ positions' = [positions EXCEPT ![s] = NoPosition]
    /\ UNCHANGED <<open_orders, clock, database, cpu, run_vars, tasks>>
    /\ UNCHANGED other_vars

ExchangeSettle(s) ==
    /\ Running
    /\ \E i \in 1..Len(positions_history[s]), np \in NetProfits :
          /\ positions_history[s][i].netProfit = NULL
          /\ positions_history' = [positions_history EXCEPT ![s][i].netProfit = np]
    /\ UNCHANGED <<positions, open_orders, clock, database, cpu, run_vars, tasks>>
    /\ UNCHANGED other_vars

(* ------------------- ListingBackrunStrategy.run ----------------------- *)
\* exchange_service.fetch_all_futures_symbol_names(): the symbols the exchange
\* lists at the time of the call
fetch_all_futures_symbol_names == SUBSET Symbols

\* exchange_symbols = await fetch_all_futures_symbol_names(), before the loop
RunStart ==
    /\ run_pc = "start"
    /\ cpu = IDLE
    /\ \E universe \in fetch_all_futures_symbol_names : exchange_symbols' = universe
    /\ run_pc' = "sleep10"
    /\ UNCHANGED <<exchange_vars, database, cpu, exchange_new_symbols,
                   open_positions, available, tasks>>
    /\ UNCHANGED other_vars

\* set(exchange_update_symbols) - set(exchange_symbols)
\* mutant: the known symbols are not subtracted
diff_symbols_all(exchange_update_symbols, known) == exchange_update_symbols

diff_symbols(exchange_update_symbols, known) == exchange_update_symbols \ known

\* one tick: sleep(10), fetch the universe, diff it; when there are new
\* symbols the known set is replaced, they are announced (send_message) and
\* the loop sleeps 60 seconds
RunTick ==
    /\ run_pc = "sleep10"
    /\ EventLoopFree
    /\ \E exchange_update_symbols \in fetch_all_futures_symbol_names :
          LET new == diff_symbols(exchange_update_symbols, exchange_symbols)
          IN  /\ new # {}
              /\ Len(tasks) + Cardinality(new) <= MaxTasks
              /\ exchange_symbols' = exchange_update_symbols
              /\ exchange_new_symbols' = new
              /\ run_pc' = "sleep60"
    /\ UNCHANGED <<exchange_vars, database, cpu, open_positions, available, tasks>>
    /\ UNCHANGED other_vars

\* position_opening_available, first call: len(fetch_positions()); the for
\* loop over the new symbols runs without suspending, so the scanner keeps
\* the event loop from here to the end of the for loop
GatePositions ==
    /\ \/ run_pc = "sleep60" /\ EventLoopFree
       \/ run_pc = "loop" /\ cpu = SCANNER
    /\ open_positions' = fetch_positions
    /\ run_pc' = "gate"
    /\ cpu' = SCANNER
    /\ UNCHANGED <<exchange_vars, database, exchange_symbols,
                   exchange_new_symbols, available, tasks>>
    /\ UNCHANGED other_vars

\* position_opening_available, second call and result; create_task when the
\* gate is open; then the next symbol, or back to sleep(10)
GateOrders ==
    /\ run_pc = "gate"
    /\ cpu = SCANNER
    /\ \E symbol \in exchange_new_symbols :
          LET result == position_opening_available(
                               open_positions, fetch_open_orders,
                               max_simultaneous_positions)
              rest == exchange_new_symbols \ {symbol}
          IN  /\ tasks' = IF result THEN Append(tasks, NewTask(symbol)) ELSE tasks
              /\ available' = IF result THEN "True" ELSE "False"
              /\ exchange_new_symbols' = rest
              /\ run_pc' = IF rest = {} THEN "sleep10" ELSE "loop"
              /\ cpu' = IF rest = {} THEN IDLE ELSE SCANNER
    /\ open_positions' = 0
    /\ UNCHANGED <<exchange_vars, database, exchange_symbols>>
    /\ UNCHANGED other_vars

\* an exchange call of run raises: before the loop the exception leaves run
\* at once, inside the loop it is logged and `raise Exception` leaves run;
\* asyncio.run then cancels every task that is still pending
RunRaise ==
    /\ \/ run_pc \in {"start", "sleep10", "sleep60"} /\ EventLoopFree
       \/ run_pc \in {"loop", "gate"} /\ cpu = SCANNER
    /\ run_pc' = "exited"
    /\ cpu' = IDLE
    /\ UNCHANGED <<exchange_vars, database, exchange_symbols,
                   exchange_new_symbols, open_positions, available, tasks>>
    /\ UNCHANGED other_vars

(* ----------------------- the candidate tasks -------------------------- *)
\* what the exchange does with an order: it takes it, or rejects it and the
\* call logs and returns nothing (as create_order does on ccxt.ExchangeError),
\* or the call raises
OrderOutcomes == {"accepted", "rejected", "raised"}

\* exchange_service.open_future_order: the order is on the exchange when it
\* is accepted
open_future_order(symbol, outcome) ==
    open_orders' = IF outcome = "accepted"
                   THEN [open_orders EXCEPT ![symbol] = @ + 1]
                   ELSE open_orders

\* _process_signal up to its send_message: nothing for NONE; otherwise the open
\* date is taken, open_future_order is called and, unless it raises, 'order
\* posted' is sent whatever it returned
process_signal(t, signal, outcome) ==
    IF signal = NONE
    THEN /\ UNCHANGED open_orders
         /\ tasks' = [tasks EXCEPT ![t].cpc = "eval"]
    ELSE /\ open_future_order(tasks[t].symbol, outcome)
         /\ tasks' = IF outcome # "raised"
                     THEN [tasks EXCEPT ![t].cpc = "posted",
                                        ![t].order = (outcome = "accepted"),
                                        ![t].open_date = clock,
                                        ![t].calls = @ \cup {"create_order"},
                                        ![t].sent.posted = @ + 1]
                     ELSE [tasks EXCEPT ![t].cpc = "failed"]

\* the exception of an index out of range
IndexError == [kind |-> "IndexError"]

\* df.iloc[i]: the row at position i (from the end when i is negative)
iloc(df, i) ==
    LET k == IF i < 0 THEN Len(df) + i + 1 ELSE i + 1
    IN  IF k \in 1..Len(df) THEN df[k] ELSE IndexError

\* signal = self._check_signals(row=df.iloc[0], ...)
candidate_signal(df) ==
    LET row == iloc(df, 0)
    IN  IF row = IndexError THEN IndexError
        ELSE [kind |-> "OrderSide", value |-> check_signals(row)]

\* mutant: the while loop looks at the length of the frame only
while_condition_rows_only(n_rows, signal) == n_rows <= 1

\* while len(df) <= 1 and signal == OrderSide.NONE
while_condition(n_rows, signal) == n_rows <= 1 /\ signal = NONE

\* one iteration of the while loop of _process_candidate_symbol, up to the
\* next await that suspends: fetch the frame, check the signals, and
\* _process_signal.  With signal NONE nothing suspends: the task keeps the
\* event loop and iterates again, unless the frame has more than one row.
CandidateEval(t) ==
    /\ Running
    /\ \/ tasks[t].cpc = "ready" /\ EventLoopFree
       \/ tasks[t].cpc = "eval" /\ cpu = t
    /\ \E df \in Frames, outcome \in OrderOutcomes :
          IF candidate_signal(df) = IndexError
          THEN \* df.iloc[0] raises IndexError
               /\ tasks' = [tasks EXCEPT ![t].cpc = "failed"]
               /\ cpu' = IDLE
               /\ UNCHANGED open_orders
          ELSE LET signal == candidate_signal(df).value IN
               IF signal # NONE \/ while_condition(Len(df), signal)
               THEN /\ process_signal(t, signal, outcome)
                    /\ cpu' = IF signal = NONE THEN t ELSE IDLE
               ELSE \* the while loop ends without a signal: final KPIs
                    /\ UNCHANGED open_orders
                    /\ tasks' = [tasks EXCEPT ![t].cpc = "kpis",
                                              ![t].sent.kpis = @ + 1]
                    /\ cpu' = IDLE
    /\ UNCHANGED <<positions, positions_history, clock, database, run_vars>>
    /\ UNCHANGED other_vars

\* _process_signal resumes after its send_message: create_task(monitor_position),
\* return; the while condition is evaluated on the frame and the signal of
\* the iteration (a signal other than NONE, or _process_signal had sent
\* nothing): the loop ends and the final KPIs are sent; the task returns when
\* that send_message is over
CandidateSpawn(t) ==
    /\ Running
    /\ EventLoopFree
    /\ tasks[t].cpc = "posted"
    /\ \E df \in Frames, signal \in {BUY, SELL} :
          IF while_condition(Len(df), signal)
          THEN /\ tasks' = [tasks EXCEPT ![t].cpc = "eval", ![t].lpc = "spawned"]
               /\ cpu' = t
          ELSE /\ tasks' = [tasks EXCEPT ![t].cpc = "kpis", ![t].lpc = "spawned",
                                         ![t].sent.kpis = @ + 1]
               /\ UNCHANGED cpu
    /\ UNCHANGED <<exchange_vars, database, run_vars>>
    /\ UNCHANGED other_vars

(* ------------------- Strategy.monitor_position ------------------------ *)
\* wall time of one iteration of the opening loop: never less than the sleep
PollDurations == {d \in {ClockStep} : d >= opening_sleep}

\* mutant: the subtraction is reversed (start_time - time.time())
opening_timed_out_reversed(elapsed, order_timeout) == 0 - elapsed > order_timeout

\* time.time() - start_time > order_timeout
opening_timed_out(elapsed, order_timeout) == elapsed > order_timeout

\* mutant: the timeout branch sends the success message too
opening_message_success(open_position) == "opened"

\* the message monitor_position_opening sends before it returns
opening_message(open_position) == IF open_position THEN "opened" ELSE "timeout"

\* one iteration of the while loop of monitor_position_opening; the first one
\* starts the clock (start_time = time.time())
monitor_position_opening(t, order_timeout) ==
    LET open_position == fetch_position(tasks[t].symbol) IN
    IF open_position \/ opening_timed_out(tasks[t].elapsed, order_timeout)
    THEN tasks' = [tasks EXCEPT ![t].lpc = "opening_notified",
                                ![t].open_position = open_position,
                                ![t].calls = @ \cup {"fetch_position"},
                                ![t].sent[opening_message(open_position)] = @ + 1]
    ELSE \E d \in PollDurations :
            tasks' = [tasks EXCEPT ![t].lpc = "opening",
                                   ![t].calls = @ \cup {"fetch_position"},
                                   ![t].elapsed = @ + d]

\* TradingParams.order_timeout as configured (default 3600)
OrderTimeouts == {0, ClockStep, 3600}

\* mutant: monitor_position hands the configured timeout on
monitor_position_order_timeout_configured(configured) == configured

\* monitor_position: await self.monitor_position_opening(symbol), with no
\* order_timeout argument, so the default of the parameter applies whatever
\* trading_params.order_timeout is
monitor_position_order_timeout(configured) == order_timeout_default

\* monitor_position awaits monitor_position_opening(symbol): the default timeout
OpeningPoll(t) ==
    /\ Running
    /\ EventLoopFree
    /\ tasks[t].lpc \in {"spawned", "opening"}
    /\ \E configured \in OrderTimeouts :
          monitor_position_opening(t, monitor_position_order_timeout(configured))
    /\ UNCHANGED <<exchange_vars, database, cpu, run_vars>>
    /\ UNCHANGED other_vars

\* int(ts.timestamp()) * 1000: the date, cut to whole seconds, in milliseconds
get_ts_in_ms_from_date(date) == date * 1000

\* the date, to the second, of a timestamp in milliseconds
get_date_from_ts_in_ms(timestamp_ms) == timestamp_ms \div 1000

\* str(x)
str(x) == x.repr

\* Position(symbol=symbol, net_profit=str(info["netProfit"]),
\*          open_date=str(get_date_from_ts_in_ms(int(info["ctime"]))), ...)
Position(symbol, info) ==
    [symbol |-> symbol, net_profit |-> str(info.netProfit),
     open_date |-> get_date_from_ts_in_ms(info.ctime)]

\* DynamoDB.insert_position: put_item adds the item (a Position has a fresh
\* uuid4 id, so no item is replaced)
insert_position(table, position) == Append(table, position)

\* what one poll of monitor_position_closing sees: the history of the symbol
\* since the open date
closing_history(t) ==
    fetch_positions_history(tasks[t].symbol, get_ts_in_ms_from_date(tasks[t].open_date))

\* mutant: the test `net_profit is not None` is missing
net_profit_reported_any(history) == history # <<>>

\* if positions_history: net_profit = positions_history[0]["info"].get("netProfit")
\* if net_profit is not None: ...
net_profit_reported(history) ==
    history # <<>> /\ history[1].netProfit # NULL

\* mutant: the handler raises SystemExit, which no task boundary holds: the
\* event loop stops and run ends
raise_SystemExit(pc) == "exited"

\* raise RuntimeError(...) in a task made with create_task: the exception
\* ends the task and stays in it; run goes on from where it is
raise_RuntimeError(pc) == pc

\* one iteration of the while loop of monitor_position_closing
monitor_position_closing(t, insert_ok) ==
    LET history == closing_history(t) IN
    IF net_profit_reported(history)
    THEN IF insert_ok
         THEN /\ database' = insert_position(database, Position(tasks[t].symbol, history[1]))
              /\ tasks' = [tasks EXCEPT ![t].lpc = "done",
                                        ![t].calls = @ \cup {"fetch_positions_history"},
                                        ![t].inserts = @ + 1,
                                        ![t].sent.closed = @ + 1]
              /\ run_pc' = run_pc
         ELSE \* insert_position raises: logged, RuntimeError leaves the task
              /\ database' = database
              /\ tasks' = [tasks EXCEPT ![t].lpc = "failed",
                                        ![t].calls = @ \cup {"fetch_positions_history"}]
              /\ run_pc' = raise_RuntimeError(run_pc)
    ELSE \* await asyncio.sleep(sleep_time)
         /\ database' = database
         /\ run_pc' = run_pc
         /\ tasks' = [tasks EXCEPT ![t].lpc = "closing",
                                   ![t].calls = @ \cup {"fetch_positions_history"}]

\* mutant: monitor_position runs its two monitors with asyncio.gather
closing_may_poll_gathered(lpc) == lpc \in {"opening", "opening_notified", "closing"}

\* mutant: the closing loop has no return after the insert
closing_may_poll_no_return(lpc) == lpc \in {"opening_notified", "closing", "done"}

\* monitor_position: await monitor_position_opening, then await
\* monitor_position_closing; the closing loop polls when the opening monitor
\* has returned (its send_message is over) and until it returns itself
closing_may_poll(lpc) == lpc \in {"opening_notified", "closing"}

\* one poll of the closing loop of task t
ClosingPoll(t) ==
    /\ Running
    /\ EventLoopFree
    /\ closing_may_poll(tasks[t].lpc)
    /\ \E insert_ok \in BOOLEAN : monitor_position_closing(t, insert_ok)
    /\ UNCHANGED <<exchange_vars, cpu, exchange_symbols, exchange_new_symbols,
                   open_positions, available>>
    /\ UNCHANGED other_vars

(* ------------------------------- Next --------------------------------- *)
Next ==
    \/ Tick
    \/ \E s \in Symbols : ExchangeFill(s)
    \/ \E s \in Symbols : ExchangeClose(s)
    \/ \E s \in Symbols : ExchangeSettle(s)
    \/ RunStart
    \/ RunTick
    \/ GatePositions
    \/ GateOrders
    \/ RunRaise
    \/ \E t \in Tasks : CandidateEval(t)
    \/ \E t \in Tasks : CandidateSpawn(t)
    \/ \E t \in Tasks : OpeningPoll(t)
    \/ \E t \in Tasks : ClosingPoll(t)

\* every order in which the event loop may run the ready coroutines
Spec == Init /\ [][Next]_vars

\* the tasks that were created and have not run yet
NotStarted == {t \in Tasks : tasks[t].cpc = "ready" \/ tasks[t].lpc = "spawned"}

\* create_task puts the new task on the ready queue of the event loop, and a
\* coroutine that sleeps or awaits a message gets there only when its timer
\* or its answer comes: when no other coroutine is due at that moment the
\* created tasks run first, in creation order.  A step of the program with a
\* created task waiting is the first step of the oldest such task.
ReadyFirst ==
    (cpu = IDLE /\ NotStarted # {}) =>
        LET t == CHOOSE t \in NotStarted : \A u \in NotStarted : t <= u
        IN  /\ run_pc' = run_pc
            /\ Len(tasks') = Len(tasks)
            /\ \A u \in Tasks \ {t} : tasks'[u] = tasks[u]

\* the schedules of Spec in which no sleeping coroutine overtakes a created
\* task
NextReadyFirst ==
    \/ Tick
    \/ \E s \in Symbols : ExchangeFill(s)
    \/ \E s \in Symbols : ExchangeClose(s)
    \/ \E s \in Symbols : ExchangeSettle(s)
    \/ RunStart
    \/ RunTick /\ ReadyFirst
    \/ GatePositions /\ ReadyFirst
    \/ GateOrders
    \/ RunRaise /\ ReadyFirst
    \/ \E t \in Tasks : CandidateEval(t) /\ ReadyFirst
    \/ \E t \in Tasks : CandidateSpawn(t) /\ ReadyFirst
    \/ \E t \in Tasks : OpeningPoll(t) /\ ReadyFirst
    \/ \E t \in Tasks : ClosingPoll(t) /\ ReadyFirst

SpecReadyFirst == Init /\ [][NextReadyFirst]_vars

(* ------------------------------ claims -------------------------------- *)
\* the steps that submit an order: the open orders of a symbol grow
Submits == \E s \in Symbols : open_orders'[s] > open_orders[s]

\* C1: admission gate safety of the listing-backrun scanner: an order is
\* submitted only when, at that moment, open positions + open orders are below
\* max_simultaneous_positions, so that through this strategy positions plus
\* orders never grow beyond the maximum.
C1_AdmissionGateSafety ==
    [][Submits =>
          /\ fetch_positions + fetch_open_orders < max_simultaneous_positions
          /\ fetch_positions' + fetch_open_orders' <= max_simultaneous_positions]_vars

\* the steps in which position_opening_available returns
GateReturns == run_pc = "gate" /\ run_pc' \in {"sleep10", "loop"}

\* C2: position_opening_available(max) returns true exactly when the number
\* of positions the exchange reported plus the number of open orders it
\* reported is below max; nothing else (no count kept by the program) enters
\* the result, and the candidate task is created exactly when it is true.
C2_GateIffBelowMax ==
    [][GateReturns =>
          LET below == open_positions + fetch_open_orders < max_simultaneous_positions
          IN  /\ available' = (IF below THEN "True" ELSE "False")
              /\ Len(tasks') = Len(tasks) + (IF below THEN 1 ELSE 0)]_vars

C2_Witness ==
    /\ available = "False"
    /\ Len(tasks) = 1
    /\ fetch_positions + fetch_open_orders >= max_simultaneous_positions
    /\ run_pc = "sleep10"

\* C3: timeout scenario of monitor_position: once the timeout message is sent
\* (the order was submitted and fetch_position stayed empty for the whole
\* window) the task is over: exactly one timeout message, no further poll of
\* the exchange for that lifecycle, and no Position inserted by that task.
C3_TimeoutIsTerminal ==
    \A t \in Tasks :
        tasks[t].order /\ tasks[t].sent.timeout > 0 =>
            /\ tasks[t].sent.timeout = 1
            /\ tasks[t].sent.opened = 0
            /\ "fetch_positions_history" \notin tasks[t].calls
            /\ tasks[t].inserts = 0

\* the steps of the opening monitor of task t
OpeningStep(t) == tasks[t].lpc \in {"spawned", "opening"} /\ tasks'[t] # tasks[t]

\* C4: monitor_position_opening never polls forever: a poll that finds the
\* position non-empty, or that comes more than order_timeout seconds after
\* the start, returns; every other poll is followed by a sleep of at least
\* one second, so the time since the start grows with every poll and no poll
\* is made later than one iteration after the timeout.
C4_OpeningPollsAreBounded ==
    [][\A t \in Tasks :
          OpeningStep(t) =>
              IF fetch_position(tasks[t].symbol)
                 \/ tasks[t].elapsed > order_timeout_default
              THEN tasks'[t].lpc = "opening_notified"
              ELSE /\ tasks'[t].lpc = "opening"
                   /\ tasks'[t].elapsed >= tasks[t].elapsed + opening_sleep
                   /\ tasks'[t].elapsed <= order_timeout_default + ClockStep]_vars

C4_Witness ==
    \E t \in Tasks :
        /\ tasks[t].lpc = "opening_notified"
        /\ ~tasks[t].open_position
        /\ tasks[t].elapsed > order_timeout_default
        /\ ~fetch_position(tasks[t].symbol)

\* C5: a run of monitor_position_opening sends exactly one message: none
\* while it polls; when it has returned, one in all, the success message if
\* it saw a position and the timeout message otherwise.
C5_OneOpeningMessage ==
    \A t \in Tasks :
        IF tasks[t].lpc \in {"none", "spawned", "opening"}
        THEN tasks[t].sent.opened = 0 /\ tasks[t].sent.timeout = 0
        ELSE /\ tasks[t].sent.opened + tasks[t].sent.timeout = 1
             /\ tasks[t].sent.opened = 1 <=> tasks[t].open_position

C5_Witness ==
    \E t, u \in Tasks :
        /\ tasks[t].sent.opened = 1 /\ tasks[t].sent.timeout = 0
        /\ tasks[u].sent.timeout = 1 /\ tasks[u].sent.opened = 0

ClosingStep(t) == tasks[t].lpc \in {"opening_notified", "closing"} /\ tasks'[t] # tasks[t]

\* C7: a poll of monitor_position_closing that finds the history of the
\* symbol non-empty with a non-null netProfit in its first entry builds the
\* Position of that entry, inserts it, sends the closing message and returns
\* (or, when the insert raises, leaves without message); any other poll
\* inserts nothing, sends nothing and the loop sleeps for the next poll.
C7_ClosingPoll ==
    [][\A t \in Tasks :
          ClosingStep(t) =>
              LET h == fetch_positions_history(tasks[t].symbol, tasks[t].open_date * 1000)
              IN  IF h # <<>> /\ h[1].netProfit # NULL
                  THEN \/ /\ database' = Append(database,
                                 [symbol |-> tasks[t].symbol,
                                  net_profit |-> h[1].netProfit.repr,
                                  open_date |-> h[1].ctime \div 1000])
                          /\ tasks'[t].sent.closed = tasks[t].sent.closed + 1
                          /\ tasks'[t].inserts = tasks[t].inserts + 1
                          /\ tasks'[t].lpc = "done"
                       \/ /\ database' = database
                          /\ tasks'[t].sent = tasks[t].sent
                          /\ tasks'[t].lpc = "failed"
                  ELSE /\ database' = database
                       /\ tasks'[t].sent = tasks[t].sent
                       /\ tasks'[t].inserts = tasks[t].inserts
                       /\ tasks'[t].lpc = "closing"]_vars

C7_Witness ==
    \E t \in Tasks :
        /\ tasks[t].lpc = "done"
        /\ tasks[t].sent.closed = 1
        /\ Len(database) = 1
        /\ database[1].symbol = tasks[t].symbol
        /\ database[1].net_profit = "-1.25"

\* C8: closing is idempotent: however many runs of monitor_position_closing
\* see a closed position, the database holds one Position per close event.
C8_OneInsertPerCloseEvent ==
    \A i, j \in 1..Len(database) :
        i # j => \/ database[i].symbol # database[j].symbol
                 \/ database[i].open_date # database[j].open_date

\* C9: a Position is created at close time only: every item of the database
\* is the Position of a closed position for which the exchange has reported
\* a non-null net profit, every item comes from a run that has returned, and
\* a run of monitor_position_closing inserts at most once.
C9_InsertOnlyAtClose ==
    /\ \A t \in Tasks :
          /\ tasks[t].inserts <= 1
          /\ tasks[t].inserts = 1 <=> tasks[t].lpc = "done"
    /\ Len(database) = Cardinality({t \in Tasks : tasks[t].inserts = 1})
    /\ \A i \in 1..Len(database) :
          \E k \in 1..Len(positions_history[database[i].symbol]) :
              LET r == positions_history[database[i].symbol][k]
              IN  /\ r.netProfit # NULL
                  /\ r.netProfit.repr = database[i].net_profit
                  /\ r.ctime \div 1000 = database[i].open_date

C9_Witness ==
    \E t \in Tasks :
        /\ tasks[t].inserts = 1
        /\ Len(database) = 1
        /\ positions[tasks[t].symbol] = NoPosition
        /\ open_orders[tasks[t].symbol] = 0

\* the step in which the insert of task t raises
InsertRaises(t) == tasks[t].lpc # "failed" /\ tasks'[t].lpc = "failed"

\* C10: when insert_position raises while task t closes its symbol, only t
\* ends: run stays where it is, the database and every other task are
\* untouched, and any other task whose closed position has its net profit
\* can still insert its Position.
C10_PersistenceFailureIsolated ==
    [][\A t \in Tasks :
          InsertRaises(t) =>
              /\ run_pc' = run_pc /\ run_pc' # "exited"
              /\ database' = database
              /\ \A u \in Tasks \ {t} :
                    /\ tasks'[u] = tasks[u]
                    /\ (ENABLED ClosingPoll(u)) =>
                           (ENABLED ClosingPoll(u))']_vars

C10_Witness ==
    \E t, u \in Tasks :
        /\ tasks[t].symbol # tasks[u].symbol
        /\ tasks[t].lpc = "failed"
        /\ tasks[u].lpc = "done"
        /\ Len(database) = 1
        /\ database[1].symbol = tasks[u].symbol
        /\ run_pc = "sleep10"

(* ---------------------- ListingBackrunStrategy.run -------------------- *)
\* run is inside its while loop: past the fetch that precedes it, not exited
InLoop == run_pc \in {"sleep10", "sleep60", "loop", "gate"}

\* C12: once run is inside its loop, no step takes it out of the loop: a
\* failing iteration is logged and followed by the next tick
C12_RunSurvivesIterationFailure == [][InLoop => InLoop']_vars

(* -------------------------- suspension points ------------------------- *)
\* C14: every iteration of a loop of a task ends at a suspension point: no
\* task still holds the event loop when a step of its loop is over, so the
\* scanner and the other tasks can be scheduled
C14_EveryIterationSuspends == \A t \in Tasks : cpu # t

(* ============================ core/utils.py =========================== *)
\* bounds of the inputs of the calls under study
MaxPrice == 2
MaxLeverage == 2
MaxFree == 2

\* TradingParams: defaults and limits of the percentages
stop_loss_pct == 6
take_profit_pct == 10
equity_trade_pct == 100
pct_ge == 0
pct_le == 100

\* a Python float, kept exact as a fraction with a positive denominator;
\* rounding is not modelled
Float(n, d) == [kind |-> "float", num |-> n, den |-> d]

\* the exception of a division by zero
ZeroDivisionError == [kind |-> "ZeroDivisionError"]

IsFloat(x) == x.kind = "float"

\* a / b
truediv(a, b) ==
    IF b.num = 0 THEN ZeroDivisionError
    ELSE IF b.num > 0 THEN Float(a.num * b.den, a.den * b.num)
    ELSE Float(0 - a.num * b.den, 0 - a.den * b.num)

\* a + b, a - b, a * b
add(a, b) == Float(a.num * b.den + b.num * a.den, a.den * b.den)
sub(a, b) == Float(a.num * b.den - b.num * a.den, a.den * b.den)
mul(a, b) == Float(a.num * b.num, a.den * b.den)

\* a == b, a < b
eq(a, b) == a.num * b.den = b.num * a.den
lt(a, b) == a.num * b.den < b.num * a.den

\* the values of order_side a caller may pass: the members of OrderSide and
\* a value that is none of them
Sides == {BUY, SELL, NONE, "INVALID"}
Prices == (0 - 1)..MaxPrice
Pcts == {pct_ge, stop_loss_pct, take_profit_pct, pct_le}
Leverages == 0..MaxLeverage

\* mutant: the signs of the two sides are exchanged
calculate_take_profit_price_swapped(price, order_side, pct, leverage) ==
    LET adjustment == truediv(truediv(Float(pct, 1), Float(100, 1)),
                              Float(leverage, 1))
    IN  IF ~IsFloat(adjustment) THEN adjustment
        ELSE IF order_side = SELL
        THEN mul(Float(price, 1), add(Float(1, 1), adjustment))
        ELSE IF order_side = BUY
        THEN mul(Float(price, 1), sub(Float(1, 1), adjustment))
        ELSE Float(0, 1)

\* calculate_take_profit_price: the adjustment is computed first, whatever
\* the side
calculate_take_profit_price(price, order_side, pct, leverage) ==
    LET adjustment == truediv(truediv(Float(pct, 1), Float(100, 1)),
                              Float(leverage, 1))
    IN  IF ~IsFloat(adjustment) THEN adjustment
        ELSE IF order_side = SELL
        THEN mul(Float(price, 1), sub(Float(1, 1), adjustment))
        ELSE IF order_side = BUY
        THEN mul(Float(price, 1), add(Float(1, 1), adjustment))
        ELSE Float(0, 1)

\* mutant: the stop loss is computed with the signs of the take profit
calculate_stop_loss_price_not_mirrored(price, order_side, pct, leverage) ==
    calculate_take_profit_price(price, order_side, pct, leverage)

\* calculate_stop_loss_price
calculate_stop_loss_price(price, order_side, pct, leverage) ==
    LET adjustment == truediv(truediv(Float(pct, 1), Float(100, 1)),
                              Float(leverage, 1))
    IN  IF ~IsFloat(adjustment) THEN adjustment
        ELSE IF order_side = SELL
        THEN mul(Float(price, 1), add(Float(1, 1), adjustment))
        ELSE IF order_side = BUY
        THEN mul(Float(price, 1), sub(Float(1, 1), adjustment))
        ELSE Float(0, 1)

(* ------------------------- _open_position_order ----------------------- *)
\* MratZscoreStrategy._get_order_creation_amount, from the free balance
get_order_creation_amount(free_amount, pct) ==
    truediv(mul(Float(free_amount, 1), Float(pct, 1)), Float(100, 1))

\* _open_position_order (MRAT and RSI): the amount, the two trigger prices,
\* then the order is handed to create_order; an exception before the try
\* leaves the function
open_position_order(size, last_price, order_side, leverage) ==
    LET amount == truediv(size, Float(last_price, 1))
        tp == calculate_take_profit_price(last_price, order_side,
                                          take_profit_pct, leverage)
        sl == calculate_stop_loss_price(last_price, order_side,
                                        stop_loss_pct, leverage)
    IN  IF ~IsFloat(amount) THEN amount
        ELSE IF ~IsFloat(tp) THEN tp
        ELSE IF ~IsFloat(sl) THEN sl
        ELSE [kind |-> "create_order", amount |-> amount,
              take_profit_price |-> tp, stop_loss_price |-> sl]

(* ---------------------------- the calls ------------------------------- *)
\* the call has not returned
Pending == [kind |-> "pending"]

PriceArgs == [price : Prices, order_side : Sides, pct : Pcts,
              leverage : Leverages]

OrderArgs == [free_amount : 1..MaxFree, last_price : Prices,
              leverage : Leverages]

(* --------------------- MratZscoreStrategy predicates ------------------ *)
\* rows of the frames the z-score predicates are called on
MaxRows == 4

\* MratZscoreStrategyParams (defaults), in tenths
z_score_threshold_buy == 25
z_score_threshold_sell == 20
tp_z_score_threshold == 20

\* z-scores on and next to the two thresholds
Zs == {0 - z_score_threshold_buy, 1 - z_score_threshold_buy,
       z_score_threshold_sell - 1, z_score_threshold_sell}

ZScores == UNION {[1..n -> Zs] : n \in 0..MaxRows}

\* the candle values the predicates read: of the previous candle (its close
\* is 2), of the candle two back, and the moving averages of the last row
Candles == [back_open : {1, 3}, back_close : {1, 3}, prev_high : {1, 2},
            back_high : {1, 2}, filter_ma : {1, 2}, slow_ma : {1, 2}]

\* the frame with these z-scores and these candle values
MratFrame(zs, c) ==
    [i \in 1..Len(zs) |->
        [z_score_mrat |-> zs[i],
         open |-> IF i = Len(zs) - 2 THEN c.back_open ELSE 2,
         close |-> IF i = Len(zs) - 2 THEN c.back_close ELSE 2,
         high |-> IF i = Len(zs) - 1 THEN c.prev_high
                  ELSE IF i = Len(zs) - 2 THEN c.back_high ELSE 1,
         filter_ma |-> c.filter_ma,
         slow_ma |-> c.slow_ma]]

\* a window of five rows with z-scores 0.5, -2.6, -2.4, 1.0, 0.2, a rebound
\* and the filter average below the slow one
ScenarioFrame ==
    MratFrame(<<5, -26, -24, 10, 2>>,
              [back_open |-> 1, back_close |-> 1, prev_high |-> 2,
               back_high |-> 1, filter_ma |-> 1, slow_ma |-> 2])

MratFrames == {MratFrame(zs, c) : zs \in ZScores, c \in Candles}

\* the positions of the rows of df.iloc[-n:]
last_rows(df, n) ==
    IF n = 0 \/ n >= Len(df) THEN 1..Len(df) ELSE (Len(df) - n + 1)..Len(df)

Bool(b) == [kind |-> "bool", value |-> b]

\* MratZscoreStrategy._is_buy_signal
mrat_is_buy_signal(df, z_score_threshold, lookback) ==
    LET under_z_score_threshold ==
            \E i \in last_rows(df, lookback) :
                df[i].z_score_mrat <= 0 - z_score_threshold
        prev == iloc(df, 0 - 2)
        back == iloc(df, 0 - 3)
        last == iloc(df, 0 - 1)
    IN  IF prev = IndexError \/ back = IndexError \/ last = IndexError
        THEN IndexError
        ELSE Bool(/\ under_z_score_threshold
                  /\ prev.close > back.open /\ prev.high > back.high
                  /\ last.filter_ma < last.slow_ma)

\* MratZscoreStrategy._is_sell_signal
mrat_is_sell_signal(df, lookback, z_score_threshold, position_percentage, tp_threshold) ==
    LET above_z_score_threshold ==
            \E i \in last_rows(df, lookback) :
                df[i].z_score_mrat >= z_score_threshold
        position_condition == ~lt(position_percentage, Float(tp_threshold, 1))
        prev == iloc(df, 0 - 2)
        back == iloc(df, 0 - 3)
    IN  IF prev = IndexError \/ back = IndexError THEN IndexError
        ELSE Bool(/\ above_z_score_threshold
                  /\ position_condition
                  /\ prev.high < back.high)

\* None, and the exception float(None) raises
None == [kind |-> "NoneType"]
TypeError == [kind |-> "TypeError"]

\* float(x)
float(x) == IF x.kind = "float" THEN x ELSE TypeError

\* not x, for None and for a float
falsy(x) == x = None \/ (x.kind = "float" /\ x.num = 0)

\* session.fetch_position(symbol): nothing, or a position with its
\* unrealized PnL and its PnL percentage (tenths)
NoPositionInfo == [kind |-> "empty"]
PositionInfos ==
    {NoPositionInfo}
    \cup [kind : {"position"},
          unrealizedPnl : {None, Float(0, 1), Float(5, 1)},
          percentage : {None, Float(tp_z_score_threshold - 1, 1),
                        Float(tp_z_score_threshold, 1)}]

\* mutant: the open orders of the symbol are not looked at
should_close_position_any_orders(position, n_open_orders, df, lookback, z_score_threshold, tp_threshold) ==
    IF position = NoPositionInfo \/ falsy(position.unrealizedPnl)
    THEN Bool(FALSE)
    ELSE IF float(position.percentage) = TypeError THEN TypeError
    ELSE mrat_is_sell_signal(df, lookback, z_score_threshold,
                             float(position.percentage), tp_threshold)

\* MratZscoreStrategy._should_close_position
should_close_position(position, n_open_orders, df, lookback, z_score_threshold, tp_threshold) ==
    IF position = NoPositionInfo \/ falsy(position.unrealizedPnl)
    THEN Bool(FALSE)
    ELSE IF n_open_orders > 0 THEN Bool(FALSE)
    ELSE IF float(position.percentage) = TypeError THEN TypeError
    ELSE mrat_is_sell_signal(df, lookback, z_score_threshold,
                             float(position.percentage), tp_threshold)

\* the elif branch of MratZscoreStrategy.run, reached when
\* _should_open_position returned False: _close_position_order sends the
\* close order when _should_close_position returned True
close_branch(position, n_open_orders, df, lookback, z_score_threshold, tp_threshold) ==
    LET close == should_close_position(position, n_open_orders, df, lookback,
                                       z_score_threshold, tp_threshold)
    IN  IF close.kind # "bool" THEN close
        ELSE IF close.value
        THEN [kind |-> "create_order", trade_side |-> "close"]
        ELSE [kind |-> "no order"]

\* the frames for the close check: the candle values _is_sell_signal reads
SellFrames ==
    {MratFrame(zs, c) : zs \in ZScores,
                        c \in {x \in Candles : /\ x.back_open = 1
                                                /\ x.back_close = 1
                                                /\ x.filter_ma = 1
                                                /\ x.slow_ma = 1}}

CloseArgs ==
    [position : PositionInfos, n_open_orders : {0, 1}, df : SellFrames,
     lookback : {3}, z_score_threshold : {z_score_threshold_sell},
     tp_threshold : {tp_z_score_threshold}]

\* rows and thresholds for the two predicates (tenths of a percent): the
\* defaults, their neighbours, and a reference threshold of +0.3 with a
\* volume threshold of 50
PredicateRows == [vol_open_low : {-250, -200, -199}, vol_open_high : {199, 200, 250},
                  btc_vol : {-5, -3, 0, 3, 5},
                  volume_usdt_btc_prop : {4, 5, 499, 500, 600}]

PredicateParams ==
    [short_price : {short_price_volatility_threshold},
     long_price : {long_price_volatility_threshold},
     short_btc : {short_btc_volatility_threshold, long_btc_volatility_threshold},
     long_btc : {short_btc_volatility_threshold, long_btc_volatility_threshold},
     volume_prop : {volume_usdt_btc_prop_threshold, 500}]

BuyArgs ==
    [df : MratFrames, z_score_threshold : {z_score_threshold_buy},
     lookback : {3}]
    \cup {[df |-> ScenarioFrame, z_score_threshold |-> 22, lookback |-> 3]}

\* ---------------------------------------------------------------------
\* RsiDailyStrategy.run: one iteration, from the signals on
\* ---------------------------------------------------------------------

\* bound: the symbols of the frame of signals
MaxCandidates == 3

\* bound: the remaining slots the claim speaks about
MaxSlots == 2

AttributeError == [kind |-> "AttributeError"]

\* abs_diff_rsi, in tenths
Deltas == {10, 25, 50}

\* the rows of the concatenated frame, one per symbol, in the order in
\* which the exchange returned the symbols
RECURSIVE SeqsOver(_, _)
SeqsOver(symbols, n) ==
    IF n = 0 THEN {<<>>}
    ELSE UNION {{<<[symbol |-> s, abs_diff_rsi |-> d]>> \o rest :
                    d \in Deltas, rest \in SeqsOver(symbols \ {s}, n - 1)} :
                s \in symbols}

ExchangeFrames == UNION {SeqsOver(1..MaxCandidates, n) : n \in 0..MaxCandidates}

\* the order of sort_values(column, ascending)
before(a, b, column, ascending) ==
    IF ascending THEN a[column] < b[column] ELSE a[column] > b[column]

RECURSIVE insert_sorted(_, _, _, _)
insert_sorted(row, df, column, ascending) ==
    IF df = <<>> THEN <<row>>
    ELSE IF before(row, df[1], column, ascending) THEN <<row>> \o df
    ELSE <<df[1]>> \o insert_sorted(row, Tail(df), column, ascending)

RECURSIVE sort_values(_, _, _)
sort_values(df, column, ascending) ==
    IF df = <<>> THEN <<>>
    ELSE insert_sorted(df[Len(df)],
                       sort_values(SubSeq(df, 1, Len(df) - 1), column,
                                   ascending),
                       column, ascending)

\* df_indicators.groupby("symbol").last().reset_index(): one row per
\* symbol, the groups sorted by their key
groupby_symbol_last(df) == sort_values(df, "symbol", TRUE)

\* df_signals.iloc[:k]
head(df, k) == SubSeq(df, 1, IF k < Len(df) THEN k ELSE Len(df))

\* self.get_remaining_position_number_to_open(): no class of the
\* repository defines this attribute
get_remaining_position_number_to_open == AttributeError

\* the body of the try of run, after the frame was fetched: the rows
\* handed to _process_signal, in order, or the exception the iteration
\* ends with
rsi_iteration(df) ==
    LET df_signals == groupby_symbol_last(df)
        remaining_position_number_to_open ==
            get_remaining_position_number_to_open
    IN  IF remaining_position_number_to_open.kind = "AttributeError"
        THEN AttributeError
        ELSE [kind |-> "processed",
              rows |-> sort_values(
                           head(df_signals,
                                remaining_position_number_to_open.value),
                           "abs_diff_rsi", FALSE)]

RankingArgs == [df : ExchangeFrames, slots : 1..MaxSlots]

\* ---------------------------------------------------------------------
\* RsiDailyStrategy._process_signal
\* ---------------------------------------------------------------------

\* bound: the positions the exchange reports
MaxPositions == 2

\* fetch_free_amount_in_balance() > 3
min_free_amount == 3

\* _should_open_position: no position on the symbol, enough free balance,
\* and len(fetch_positions()) <= max_simultaneous_positions
rsi_should_open_position(n_symbol_positions, free_amount, n_positions) ==
    /\ n_symbol_positions = 0
    /\ free_amount > min_free_amount
    /\ n_positions <= max_simultaneous_positions

\* mutant: the strategy has the method
rsi_get_order_creation_amount_defined == [kind |-> "float"]

\* self.get_order_creation_amount(...): no class of the repository
\* defines this attribute (MratZscoreStrategy has _get_order_creation_amount)
rsi_get_order_creation_amount == AttributeError

\* _process_signal up to the submission of the order: None when the
\* signal is declined, the exception raised before the order is built,
\* or the order handed to the exchange
rsi_process_signal(n_symbol_positions, free_amount, n_positions) ==
    IF rsi_should_open_position(n_symbol_positions, free_amount, n_positions)
    THEN LET size == rsi_get_order_creation_amount
         IN  IF size = AttributeError THEN AttributeError
             ELSE [kind |-> "create_order", trade_side |-> "open"]
    ELSE None

\* what the exchange answers to the two fetch_positions and to the balance
SignalArgs ==
    {a \in [n_symbol_positions : 0..1, free_amount : {3, 4},
            n_positions : 0..MaxPositions] :
        a.n_symbol_positions <= a.n_positions}

\* ---------------------------------------------------------------------
\* ListingBackrunStrategy.run: the diff of one tick, on the lists the
\* exchange service returns
\* ---------------------------------------------------------------------

\* bound: the length of the lists of symbol names
MaxListLen == 3

RECURSIVE ListsOver(_, _)
ListsOver(symbols, n) ==
    IF n = 0 THEN {<<>>}
    ELSE {<<s>> \o rest : s \in symbols, rest \in ListsOver(symbols, n - 1)}

\* what fetch_all_futures_symbol_names can return: any order, duplicates
SymbolLists == UNION {ListsOver(1..MaxCandidates, n) : n \in 0..MaxListLen}

\* set(l)
set(l) == {l[i] : i \in 1..Len(l)}

\* list(s): every element once, in an order the program does not choose
list(s) ==
    {l \in ListsOver(s, Cardinality(s)) : set(l) = s}

\* exchange_new_symbols = list(set(exchange_update_symbols) - set(exchange_symbols))
new_symbols(exchange_update_symbols, known) ==
    list(diff_symbols(set(exchange_update_symbols), set(known)))

DiffArgs == [exchange_update_symbols : SymbolLists, exchange_symbols : SymbolLists]

\* ---------------------------------------------------------------------
\* TelegramNotifier.send_message / send_image
\* ---------------------------------------------------------------------

\* the classes of the errors of the transport, each with its bases
mro ==
    [TimedOut |-> {"TimedOut", "NetworkError", "TelegramError", "Exception"},
     NetworkError |-> {"NetworkError", "TelegramError", "Exception"},
     BadRequest |-> {"BadRequest", "NetworkError", "TelegramError",
                     "Exception"},
     RuntimeError |-> {"RuntimeError", "Exception"}]

isinstance(e, class) == class \in mro[e]

\* what awaiting bot.send_message / bot.send_photo does
TransportOutcomes == {"returns"} \cup DOMAIN mro

\* mutant: only the timeout is handled
notify_timeout_only(outcome) ==
    IF outcome = "returns" THEN [kind |-> "returns", printed |-> FALSE]
    ELSE IF isinstance(outcome, "TimedOut")
    THEN [kind |-> "returns", printed |-> FALSE]
    ELSE [kind |-> "raises", exception |-> outcome]

\* try: await self.bot.send_...  except telegram.error.TimedOut: pass
\* except Exception as e: print(...)
notify(outcome) ==
    IF outcome = "returns" THEN [kind |-> "returns", printed |-> FALSE]
    ELSE IF isinstance(outcome, "TimedOut")
    THEN [kind |-> "returns", printed |-> FALSE]
    ELSE IF isinstance(outcome, "Exception")
    THEN [kind |-> "returns", printed |-> TRUE]
    ELSE [kind |-> "raises", exception |-> outcome]

send_message(outcome) == notify(outcome)

send_image(outcome) == notify(outcome)

\* ---------------------------------------------------------------------
\* BitgetExchange.set_margin_mode_and_leverage and the order that follows
\* it in _open_position_order: the calls made on the session, in order
\* ---------------------------------------------------------------------

MarginModes == {"isolated", "cross"}

int(n) == [kind |-> "int", value |-> n]

\* the answer of session.fetch_leverage
leverage_dict(n) ==
    [kind |-> "dict", longLeverage |-> int(n), shortLeverage |-> int(n)]

\* what the session does on each call: "ok", "raises" (an Exception), for
\* fetch_leverage the leverage it reports, for create_order the class of
\* the error
SessionOutcomes ==
    [set_margin_mode : {"ok", "raises"},
     set_leverage : [{"long", "short", "USDT"} -> {"ok", "raises"}],
     fetch_leverage : {[kind |-> "raises"]}
                      \cup {int(n) : n \in {m \in Leverages : m >= 1}},
     create_order : {"ok", "ExchangeError", "NetworkError"}]

session_call(name, outcome) == [call |-> name, raised |-> outcome = "raises"]

\* the second try of set_margin_mode_and_leverage in isolated mode: the
\* first call that raises ends the block (the error is logged); after
\* `leverage = self._session.fetch_leverage(...)` the name leverage is the
\* answer of the exchange, and the assert compares one of its fields
\* with it
isolated_leverage(leverage, o) ==
    LET long == <<session_call("set_leverage long", o.set_leverage["long"])>>
        short == <<session_call("set_leverage short", o.set_leverage["short"])>>
        fetch == <<session_call("fetch_leverage", o.fetch_leverage.kind)>>
    IN  IF o.set_leverage["long"] = "raises" THEN long
        ELSE IF o.set_leverage["short"] = "raises" THEN long \o short
        ELSE IF o.fetch_leverage.kind = "raises" THEN long \o short \o fetch
        ELSE LET leverage_2 == leverage_dict(o.fetch_leverage.value)
             IN  long \o short \o fetch
                 \o <<[call |-> "assert",
                       raised |-> leverage_2.shortLeverage # leverage_2]>>

\* set_margin_mode_and_leverage never raises an Exception: both blocks
\* log and go on
set_margin_mode_and_leverage(margin_mode, leverage, o) ==
    <<session_call("set_margin_mode", o.set_margin_mode)>>
    \o (IF margin_mode = "isolated" THEN isolated_leverage(leverage, o)
        ELSE <<session_call("set_leverage", o.set_leverage["USDT"])>>)

\* mutant: a failure of the settings leaves _open_position_order before
\* create_order
open_position_calls_propagating(margin_mode, leverage, o) ==
    LET settings == set_margin_mode_and_leverage(margin_mode, leverage, o)
    IN  IF \E i \in 1..Len(settings) : settings[i].raised
        THEN [kind |-> "raises", calls |-> settings]
        ELSE [kind |-> IF o.create_order = "ok" THEN "order"
                       ELSE IF o.create_order = "ExchangeError" THEN "None"
                       ELSE "raises",
              calls |-> settings \o <<[call |-> "create_order",
                                       raised |-> o.create_order # "ok"]>>]

\* the try of _open_position_order: the settings, then create_order, which
\* returns None on ccxt.ExchangeError and re-raises anything else
open_position_calls(margin_mode, leverage, o) ==
    [kind |-> IF o.create_order = "ok" THEN "order"
              ELSE IF o.create_order = "ExchangeError" THEN "None"
              ELSE "raises",
     calls |-> set_margin_mode_and_leverage(margin_mode, leverage, o)
               \o <<[call |-> "create_order",
                     raised |-> o.create_order # "ok"]>>]

OpenArgs ==
    [margin_mode : MarginModes, leverage : {n \in Leverages : n >= 1},
     session : SessionOutcomes]

\* ---------------------------------------------------------------------
\* BitgetExchange.create_order
\* ---------------------------------------------------------------------

\* the classes of the errors of ccxt, each with its bases
ccxt_mro ==
    [InsufficientFunds |-> {"InsufficientFunds", "ExchangeError", "BaseError",
                            "Exception"},
     InvalidOrder |-> {"InvalidOrder", "ExchangeError", "BaseError",
                       "Exception"},
     ExchangeError |-> {"ExchangeError", "BaseError", "Exception"},
     NetworkError |-> {"NetworkError", "BaseError", "Exception"},
     TypeError |-> {"TypeError", "Exception"}]

\* what self._session.create_order does
CreateOrderOutcomes == {"ok"} \cup DOMAIN ccxt_mro

\* mutant: a rejected order is sent a second time
exchange_create_order_retry(outcome) ==
    IF outcome = "ok"
    THEN [kind |-> "order", logged |-> FALSE,
          calls |-> <<session_call("create_order", "ok")>>]
    ELSE IF "ExchangeError" \in ccxt_mro[outcome]
    THEN [kind |-> "None", logged |-> TRUE,
          calls |-> <<session_call("create_order", "raises"),
                      session_call("create_order", "raises")>>]
    ELSE [kind |-> "raises", logged |-> TRUE,
          calls |-> <<session_call("create_order", "raises")>>]

\* try: return self._session.create_order(...)
\* except ccxt.ExchangeError: logger.error(...)       (None is returned)
\* except Exception: logger.error(...); raise
exchange_create_order(outcome) ==
    IF outcome = "ok"
    THEN [kind |-> "order", logged |-> FALSE,
          calls |-> <<session_call("create_order", "ok")>>]
    ELSE IF "ExchangeError" \in ccxt_mro[outcome]
    THEN [kind |-> "None", logged |-> TRUE,
          calls |-> <<session_call("create_order", "raises")>>]
    ELSE [kind |-> "raises", logged |-> TRUE,
          calls |-> <<session_call("create_order", "raises")>>]

\* ---------------------------------------------------------------------
\* core/parameters.py: the construction of TradingParams and of
\* MratZscoreStrategyParams
\* ---------------------------------------------------------------------

\* defaults of the three lengths
fast_ma_length_default == 9
slow_ma_length_default == 51
filter_ma_length_default == 100

ValidationError == [kind |-> "ValidationError"]

\* percentages handed to the constructor
PctInputs == {pct_ge - 1, pct_ge, stop_loss_pct, pct_le, pct_le + 1}

\* Field(ge=0, le=100)
field_ge_le(value) == value >= pct_ge /\ value <= pct_le

\* TradingParams(stop_loss_pct=..., take_profit_pct=..., equity_trade_pct=...)
TradingParams(stop_loss, take_profit, equity_trade) ==
    IF field_ge_le(stop_loss) /\ field_ge_le(take_profit)
       /\ field_ge_le(equity_trade)
    THEN [kind |-> "TradingParams", stop_loss_pct |-> stop_loss,
          take_profit_pct |-> take_profit, equity_trade_pct |-> equity_trade]
    ELSE ValidationError

MaFields == {"fast_ma_length", "slow_ma_length", "filter_ma_length"}

MaDefaults ==
    [fast_ma_length |-> fast_ma_length_default,
     slow_ma_length |-> slow_ma_length_default,
     filter_ma_length |-> filter_ma_length_default]

\* lengths handed to the constructor
Lengths == {5, 9, 51, 60, 100, 120}

\* the keyword arguments: the lengths that are given, with their values
\* (a length that is not given is written with its default here and is
\* absent from `given`)
MaInputs ==
    {v \in [given : SUBSET MaFields, fast_ma_length : Lengths,
            slow_ma_length : Lengths, filter_ma_length : Lengths] :
        \A k \in MaFields : k \notin v.given => v[k] = MaDefaults[k]}

\* values.get(key): None when the key is not among the arguments
dict_get(values, key) ==
    IF key \in values.given THEN int(values[key]) ELSE None

\* a < b on int or None
py_lt(a, b) ==
    IF a = None \/ b = None THEN TypeError ELSE Bool(a.value < b.value)

\* @model_validator(mode="before"): runs on the arguments, before the
\* defaults are filled in; fast < slow < filter evaluates fast < slow
\* first and slow < filter only when that is true
validate_moving_average_lengths(values) ==
    LET fast_ma_length == dict_get(values, "fast_ma_length")
        slow_ma_length == dict_get(values, "slow_ma_length")
        filter_ma_length == dict_get(values, "filter_ma_length")
        first == py_lt(fast_ma_length, slow_ma_length)
        second == py_lt(slow_ma_length, filter_ma_length)
    IN  IF first = TypeError THEN TypeError
        ELSE IF first = Bool(FALSE) THEN ValidationError
        ELSE IF second = TypeError THEN TypeError
        ELSE IF second = Bool(FALSE) THEN ValidationError
        ELSE values

\* MratZscoreStrategyParams(**values): the validator, then the fields
\* with their defaults
MratZscoreStrategyParams(values) ==
    LET validated == validate_moving_average_lengths(values)
    IN  IF validated \in {TypeError, ValidationError} THEN validated
        ELSE [kind |-> "MratZscoreStrategyParams",
              fast_ma_length |-> values.fast_ma_length,
              slow_ma_length |-> values.slow_ma_length,
              filter_ma_length |-> values.filter_ma_length]

\* ---------------------------------------------------------------------
\* monitor_position_closing: the Position built from the history record
\* ---------------------------------------------------------------------

\* bound: the records of the history since the open date
MaxHistory == 2

Text(s) == [kind |-> "str", repr |-> s]

\* the "info" of a record of fetch_positions_history(symbols=[symbol])
HistoryInfos ==
    [symbol : 1..NSymbols, netProfit : NetProfits \cup {NULL},
     openAvgPrice : {Text("1.0"), Text("2.0")},
     closeAvgPrice : {Text("2.0"), [kind |-> "float", repr |-> "3.25"]},
     holdSide : {Text("long"), Text("short")}]

RECURSIVE HistoriesOf(_, _)
HistoriesOf(symbol, n) ==
    IF n = 0 THEN {<<>>}
    ELSE {<<info>> \o rest :
            info \in {i \in HistoryInfos : i.symbol = symbol},
            rest \in HistoriesOf(symbol, n - 1)}

ClosingArgs ==
    UNION {[symbol : {symbol},
            positions_history :
                UNION {HistoriesOf(symbol, n) : n \in 0..MaxHistory}] :
           symbol \in 1..NSymbols}

\* mutant: the prices and the side are read from the last record
closing_position_last_record(symbol, history) ==
    IF ~net_profit_reported(history) THEN None
    ELSE LET position_history_info == history[1]
             last == history[Len(history)]
         IN  [kind |-> "Position", symbol |-> symbol,
              net_profit |-> str(position_history_info.netProfit),
              open_price |-> str(last.openAvgPrice),
              close_price |-> str(last.closeAvgPrice),
              hold_side |-> str(last.holdSide)]

\* the item one poll of monitor_position_closing inserts: none while the
\* history is empty or its first record has no netProfit, else the
\* Position made of the fields of that record, each through str()
closing_position(symbol, history) ==
    IF ~net_profit_reported(history) THEN None
    ELSE LET position_history_info == history[1]
         IN  [kind |-> "Position", symbol |-> symbol,
              net_profit |-> str(position_history_info.netProfit),
              open_price |-> str(position_history_info.openAvgPrice),
              close_price |-> str(position_history_info.closeAvgPrice),
              hold_side |-> str(position_history_info.holdSide)]

Calls ==
    [function : {"monitor_position_closing (Position)"}, args : ClosingArgs,
     result : {Pending}]
    \cup
    [function : {"TradingParams"},
     args : [stop_loss_pct : PctInputs, take_profit_pct : PctInputs,
             equity_trade_pct : PctInputs],
     result : {Pending}]
    \cup
    [function : {"MratZscoreStrategyParams"}, args : MaInputs,
     result : {Pending}]
    \cup
    [function : {"BitgetExchange.create_order"}, args : CreateOrderOutcomes,
     result : {Pending}]
    \cup
    [function : {"_open_position_order (session calls)"}, args : OpenArgs,
     result : {Pending}]
    \cup
    [function : {"TelegramNotifier.send_message",
                 "TelegramNotifier.send_image"},
     args : TransportOutcomes, result : {Pending}]
    \cup
    [function : {"ListingBackrunStrategy.run (diff)"}, args : DiffArgs,
     result : {Pending}]
    \cup
    [function : {"RsiDailyStrategy._process_signal"}, args : SignalArgs,
     result : {Pending}]
    \cup
    [function : {"RsiDailyStrategy.run"}, args : RankingArgs,
     result : {Pending}]
    \cup
    [function : {"MratZscoreStrategy._is_buy_signal"}, args : BuyArgs,
     result : {Pending}]
    \cup [function : {"_process_candidate_symbol"}, args : Frames,
          result : {Pending}]
    \cup [function : {"MratZscoreStrategy.run (close)"}, args : CloseArgs,
          result : {Pending}]
    \cup
    [function : {"_is_sell_signal", "_is_buy_signal"},
     args : [row : PredicateRows, params : PredicateParams],
     result : {Pending}]
    \cup [function : {"calculate_take_profit_price", "calculate_stop_loss_price"},
     args : PriceArgs, result : {Pending}]
    \cup [function : {"_check_signals"}, args : Rows, result : {Pending}]
    \cup [function : {"_open_position_order"}, args : OrderArgs,
          result : {Pending}]

InitCalls ==
    /\ InitExchange
    /\ InitRun
    /\ strategy = "ListingBackrunStrategy"
    /\ failures = 0
    /\ call \in Calls

CallReturns(function, result) ==
    /\ call.function = function
    /\ call.result = Pending
    /\ call' = [call EXCEPT !.result = result]
    /\ UNCHANGED <<exchange_vars, database, cpu, run_vars, tasks, strategy,
                   failures>>

ApplyTakeProfit ==
    CallReturns("calculate_take_profit_price",
                calculate_take_profit_price(call.args.price,
                    call.args.order_side, call.args.pct, call.args.leverage))

ApplyStopLoss ==
    CallReturns("calculate_stop_loss_price",
                calculate_stop_loss_price(call.args.price,
                    call.args.order_side, call.args.pct, call.args.leverage))

ApplyCheckSignals ==
    CallReturns("_check_signals",
                [kind |-> "OrderSide", value |-> check_signals(call.args)])

ApplyOpenPositionOrder ==
    CallReturns("_open_position_order",
                open_position_order(
                    get_order_creation_amount(call.args.free_amount,
                                              equity_trade_pct),
                    call.args.last_price, BUY, call.args.leverage))

ApplyIsSellSignal ==
    CallReturns("_is_sell_signal",
                [kind |-> "bool",
                 value |-> sell_signal(call.args.row,
                               call.args.params.short_price,
                               call.args.params.short_btc,
                               call.args.params.volume_prop)])

ApplyIsBuySignal ==
    CallReturns("_is_buy_signal",
                [kind |-> "bool",
                 value |-> buy_signal(call.args.row,
                               call.args.params.long_price,
                               call.args.params.long_btc,
                               call.args.params.volume_prop)])

ApplyMratIsBuySignal ==
    CallReturns("MratZscoreStrategy._is_buy_signal",
                mrat_is_buy_signal(call.args.df, call.args.z_score_threshold,
                                   call.args.lookback))

\* the evaluation of the first iteration of _process_candidate_symbol
ApplyCandidateSignal ==
    CallReturns("_process_candidate_symbol", candidate_signal(call.args))

ApplyCloseBranch ==
    CallReturns("MratZscoreStrategy.run (close)",
                close_branch(call.args.position, call.args.n_open_orders,
                             call.args.df, call.args.lookback,
                             call.args.z_score_threshold,
                             call.args.tp_threshold))

ApplyRsiIteration ==
    CallReturns("RsiDailyStrategy.run", rsi_iteration(call.args.df))

ApplyRsiProcessSignal ==
    CallReturns("RsiDailyStrategy._process_signal",
                rsi_process_signal(call.args.n_symbol_positions,
                                   call.args.free_amount,
                                   call.args.n_positions))

ApplyDiff ==
    /\ call.function = "ListingBackrunStrategy.run (diff)"
    /\ \E l \in new_symbols(call.args.exchange_update_symbols,
                            call.args.exchange_symbols) :
           CallReturns("ListingBackrunStrategy.run (diff)",
                       [kind |-> "list", value |-> l])

ApplySendMessage ==
    CallReturns("TelegramNotifier.send_message", send_message(call.args))

ApplySendImage ==
    CallReturns("TelegramNotifier.send_image", send_image(call.args))

ApplyOpenPositionCalls ==
    CallReturns("_open_position_order (session calls)",
                open_position_calls(call.args.margin_mode,
                                    call.args.leverage, call.args.session))

ApplyCreateOrder ==
    CallReturns("BitgetExchange.create_order",
                exchange_create_order(call.args))

ApplyTradingParams ==
    CallReturns("TradingParams",
                TradingParams(call.args.stop_loss_pct,
                              call.args.take_profit_pct,
                              call.args.equity_trade_pct))

ApplyMratZscoreStrategyParams ==
    CallReturns("MratZscoreStrategyParams",
                MratZscoreStrategyParams(call.args))

ApplyClosingPosition ==
    CallReturns("monitor_position_closing (Position)",
                closing_position(call.args.symbol,
                                 call.args.positions_history))

NextCalls ==
    \/ ApplyClosingPosition
    \/ ApplyTradingParams
    \/ ApplyMratZscoreStrategyParams
    \/ ApplyCreateOrder
    \/ ApplyOpenPositionCalls
    \/ ApplySendMessage
    \/ ApplySendImage
    \/ ApplyDiff
    \/ ApplyRsiProcessSignal
    \/ ApplyRsiIteration
    \/ ApplyMratIsBuySignal
    \/ ApplyCloseBranch
    \/ ApplyCandidateSignal
    \/ ApplyIsSellSignal
    \/ ApplyIsBuySignal
    \/ ApplyTakeProfit
    \/ ApplyStopLoss
    \/ ApplyCheckSignals
    \/ ApplyOpenPositionOrder

SpecCalls == InitCalls /\ [][NextCalls]_vars

\* the call of `function` has returned
Returned(function) == call.function = function /\ call.result # Pending

\* C20: _check_signals returns SELL whenever the SELL predicate holds, BUY
\* when it fails and the BUY predicate holds, NONE otherwise
C20_SellWinsTieBreak ==
    Returned("_check_signals") =>
        call.result.value =
            CASE is_sell_signal(call.args) -> SELL
              [] ~is_sell_signal(call.args) /\ is_buy_signal(call.args) -> BUY
              [] OTHER -> NONE

\* a call that returned SELL on a row where both predicates hold
C20_Witness ==
    /\ Returned("_check_signals")
    /\ is_sell_signal(call.args) /\ is_buy_signal(call.args)
    /\ call.result.value = SELL

(* ------------------ take-profit and stop-loss prices ------------------ *)
TakeProfit == "calculate_take_profit_price"
StopLoss == "calculate_stop_loss_price"

\* the price argument of the call, as a float
entry == Float(call.args.price, 1)

\* a price call that returned, for this side, on the inputs the
\* configuration calls valid: p > 0, t in [0, 100], l >= 1
ValidCase(function, order_side) ==
    /\ Returned(function)
    /\ call.args.order_side = order_side
    /\ call.args.price > 0
    /\ call.args.pct \in pct_ge..pct_le
    /\ call.args.leverage >= 1

\* C15 as stated: on valid inputs the take profit is strictly beyond the
\* entry price and the stop loss strictly on the other side of it
C15_StrictlyBeyondEntry ==
    /\ ValidCase(TakeProfit, BUY) =>
           IsFloat(call.result) /\ lt(entry, call.result)
    /\ ValidCase(StopLoss, BUY) =>
           IsFloat(call.result) /\ lt(call.result, entry)
    /\ ValidCase(TakeProfit, SELL) =>
           IsFloat(call.result) /\ lt(call.result, entry)
    /\ ValidCase(StopLoss, SELL) =>
           IsFloat(call.result) /\ lt(entry, call.result)

\* C15, amended: on valid inputs the take profit is never on the losing side
\* of the entry price and the stop loss never on the winning side, and both
\* are the entry price itself when the percentage is 0
C15_NeverOnTheWrongSide ==
    /\ ValidCase(TakeProfit, BUY) =>
           IsFloat(call.result) /\ ~lt(call.result, entry)
    /\ ValidCase(StopLoss, BUY) =>
           IsFloat(call.result) /\ ~lt(entry, call.result)
    /\ ValidCase(TakeProfit, SELL) =>
           IsFloat(call.result) /\ ~lt(entry, call.result)
    /\ ValidCase(StopLoss, SELL) =>
           IsFloat(call.result) /\ ~lt(call.result, entry)
    /\ \A function \in {TakeProfit, StopLoss}, order_side \in {BUY, SELL} :
           ValidCase(function, order_side) /\ call.args.pct = 0 =>
               eq(call.result, entry)

\* a take profit of a BUY at 0 percent returned the entry price
C15_Witness ==
    /\ ValidCase(TakeProfit, BUY)
    /\ call.args.pct = 0
    /\ eq(call.result, entry)

\* C16: for a side that is neither BUY nor SELL both functions return 0,
\* whatever the price, the percentage and the leverage, and never fail
C16_NoSideReturnsZero ==
    \A function \in {TakeProfit, StopLoss} :
        Returned(function) /\ call.args.order_side \notin {BUY, SELL} =>
            IsFloat(call.result) /\ eq(call.result, Float(0, 1))

\* C17: calculate_take_profit_price never fails, and returns
\* price*(1+(pct/100)/leverage) for BUY and price*(1-(pct/100)/leverage) for
\* SELL: result * (100 * leverage) = price * (100 * leverage +- pct)
C17_TakeProfitFormulaTotal ==
    Returned(TakeProfit) =>
        LET a == call.args
            r == call.result
        IN  /\ IsFloat(r)
            /\ a.order_side = BUY =>
                   r.num * (100 * a.leverage)
                       = a.price * (100 * a.leverage + a.pct) * r.den
            /\ a.order_side = SELL =>
                   r.num * (100 * a.leverage)
                       = a.price * (100 * a.leverage - a.pct) * r.den

\* two calls end the same way: the same float, or the same exception
Same(x, y) == IF IsFloat(x) /\ IsFloat(y) THEN eq(x, y) ELSE x.kind = y.kind

\* C18: the stop loss of a side is the take profit of the opposite side
C18_StopLossMirrorsTakeProfit ==
    /\ Returned(StopLoss) /\ call.args.order_side = BUY =>
           Same(call.result,
                calculate_take_profit_price(call.args.price, SELL,
                                            call.args.pct, call.args.leverage))
    /\ Returned(StopLoss) /\ call.args.order_side = SELL =>
           Same(call.result,
                calculate_take_profit_price(call.args.price, BUY,
                                            call.args.pct, call.args.leverage))

\* a stop loss of a BUY that is below the entry price
C18_Witness ==
    /\ ValidCase(StopLoss, BUY)
    /\ call.args.pct > 0
    /\ lt(call.result, entry)

\* C19: with a last price of zero or below, _open_position_order fails and
\* hands no order to create_order
C19_NoOrderFromBadPrice ==
    Returned("_open_position_order") /\ call.args.last_price <= 0 =>
        call.result.kind \notin {"create_order"}

(* ============ MratZscoreStrategy.run and RsiDailyStrategy.run ========= *)
\* the failing iterations in a row that are counted
MaxFailures == 3

\* self.symbol of the MRAT strategy
mrat_symbol == 1

Supervisors == {"MratZscoreStrategy", "RsiDailyStrategy"}

\* mutant: the handler raises again, as the one of ListingBackrunStrategy.run
except_Exception_raise(pc) == "exited"

\* except Exception as e: logger.error(...); await asyncio.sleep(60)
except_Exception(pc) == "backoff"

\* an iteration ends in the except clause
IterationFails ==
    /\ run_pc' = except_Exception(run_pc)
    /\ failures' = IF failures < MaxFailures THEN failures + 1 ELSE failures

\* exchange_service.create_order: the order is on the exchange when it is
\* accepted; a ccxt.ExchangeError is logged and None is returned
create_order(symbol, outcome) ==
    open_orders' = IF outcome = "accepted"
                   THEN [open_orders EXCEPT ![symbol] = @ + 1]
                   ELSE open_orders

\* asyncio.create_task(self.monitor_position(symbol, open_date))
MonitorTask(symbol, order) ==
    [NewTask(symbol) EXCEPT !.cpc = "none", !.lpc = "spawned",
                            !.order = order, !.open_date = clock]

\* one iteration of the while loop of MratZscoreStrategy.run, which runs
\* without suspending up to its sleep:
\*   - a fetch, the validation or the indicators raise;
\*   - the frame is empty: sleep(1), continue;
\*   - _should_open_position: with a history for the symbol,
\*     last_position[0] raises (a position is a dict); without one the BUY
\*     signal decides.  On BUY the order is placed (an exception skips
\*     create_task) and the monitor is created; otherwise the position may
\*     be closed by an order whose fill is the exchange's step; sleep(60).
MratIterate ==
    /\ strategy = "MratZscoreStrategy"
    /\ run_pc \in {"start", "sleep1", "sleep60", "backoff"}
    /\ EventLoopFree
    /\ LET position_history ==
               fetch_positions_history(mrat_symbol, 0)
       IN  \/ /\ IterationFails
              /\ UNCHANGED <<open_orders, tasks>>
           \/ /\ run_pc' = "sleep1"
              /\ failures' = 0
              /\ UNCHANGED <<open_orders, tasks>>
           \/ /\ position_history = <<>>
              /\ \E buy \in BOOLEAN, outcome \in OrderOutcomes :
                    IF buy
                    THEN /\ Len(tasks) < MaxTasks
                         /\ create_order(mrat_symbol, outcome)
                         /\ IF outcome = "raised"
                            THEN /\ IterationFails
                                 /\ UNCHANGED tasks
                            ELSE /\ tasks' = Append(tasks,
                                         MonitorTask(mrat_symbol,
                                                     outcome = "accepted"))
                                 /\ run_pc' = "sleep60"
                                 /\ failures' = 0
                    ELSE /\ run_pc' = "sleep60"
                         /\ failures' = 0
                         /\ UNCHANGED <<open_orders, tasks>>
    /\ UNCHANGED <<positions, positions_history, clock, database, cpu,
                   exchange_symbols, exchange_new_symbols, open_positions,
                   available, strategy, call>>

\* RsiDailyStrategy.run: df = await fetch_all_symbols_ohlcv(...), which
\* raises or suspends in asyncio.gather
RsiFetch ==
    /\ strategy = "RsiDailyStrategy"
    /\ run_pc \in {"start", "backoff"}
    /\ EventLoopFree
    /\ \/ IterationFails
       \/ run_pc' = "evaluate" /\ UNCHANGED failures
    /\ UNCHANGED <<exchange_vars, database, cpu, exchange_symbols,
                   exchange_new_symbols, open_positions, available, tasks,
                   strategy, call>>

\* the rest of the iteration: the indicators and the signals, then
\* self.get_remaining_position_number_to_open(), a method no class defines
\* (AttributeError); were it defined, `for i, row in df_signals_sorted`
\* unpacks the column names of the frame (ValueError)
RsiEvaluate ==
    /\ strategy = "RsiDailyStrategy"
    /\ run_pc = "evaluate"
    /\ EventLoopFree
    /\ IterationFails
    /\ UNCHANGED <<exchange_vars, database, cpu, exchange_symbols,
                   exchange_new_symbols, open_positions, available, tasks,
                   strategy, call>>

InitSupervisors ==
    /\ InitExchange
    /\ InitRun
    /\ strategy \in Supervisors
    /\ failures = 0
    /\ call = NoCall

Iterate == MratIterate \/ RsiFetch \/ RsiEvaluate

NextSupervisors ==
    \/ Tick
    \/ \E s \in Symbols : ExchangeFill(s)
    \/ \E s \in Symbols : ExchangeClose(s)
    \/ \E s \in Symbols : ExchangeSettle(s)
    \/ MratIterate
    \/ RsiFetch
    \/ RsiEvaluate
    \/ \E t \in Tasks : OpeningPoll(t)
    \/ \E t \in Tasks : ClosingPoll(t)

SpecSupervisors == InitSupervisors /\ [][NextSupervisors]_vars

\* C13: no step of the MRAT or RSI run takes it out of its loop; a step
\* that adds a failing iteration to the count leaves run in the 60-second
\* backoff sleep, and from that sleep the next iteration can start, however
\* many iterations failed before
C13_SupervisorsSurviveFailures ==
    [][/\ run_pc' # "exited"
       /\ failures' > failures => run_pc' = "backoff"
       /\ run_pc' = "backoff" => (ENABLED Iterate)']_vars

\* the run of either strategy after MaxFailures failing iterations in a row,
\* in its backoff sleep
C13_Witness ==
    /\ strategy \in Supervisors
    /\ failures = MaxFailures
    /\ run_pc = "backoff"

(* --------------------- monitor_position_closing ----------------------- *)
\* task t is in the loop of monitor_position_closing and the exchange
\* reports, for its symbol and since its open date, a closed position with
\* a net profit
ClosureReported(t) ==
    /\ closing_may_poll(tasks[t].lpc)
    /\ net_profit_reported(closing_history(t))

\* C11: a closing monitor to which the exchange reports the closed position
\* with its net profit terminates with the Position persisted; in a finite
\* run: it is never left where no poll of it can ever run again, that is,
\* the event loop that schedules it is still running
C11_ClosingMonitorTerminates ==
    \A t \in Tasks : ClosureReported(t) => Running

(* ----------------------- listing-backrun predicates ------------------- *)
\* C21: the SELL predicate holds exactly when the open-to-low move is at or
\* below the short price threshold, the BTC move at or above the short
\* reference threshold and the volume proportion at or above the minimum;
\* the BUY predicate exactly when the open-to-high move is at or above the
\* long price threshold, the BTC move at or below the long reference
\* threshold and the volume proportion at or above the minimum
C21_ListingPredicates ==
    /\ Returned("_is_sell_signal") =>
           LET row == call.args.row
               params == call.args.params
           IN  call.result.value <=>
                   (~(row.vol_open_low > params.short_price)
                    /\ ~(row.btc_vol < params.short_btc)
                    /\ ~(row.volume_usdt_btc_prop < params.volume_prop))
    /\ Returned("_is_buy_signal") =>
           LET row == call.args.row
               params == call.args.params
           IN  call.result.value <=>
                   (~(row.vol_open_high < params.long_price)
                    /\ ~(row.btc_vol > params.long_btc)
                    /\ ~(row.volume_usdt_btc_prop < params.volume_prop))

\* open 100, low 75 (a move of -25%), BTC +0.5 against a threshold of +0.3,
\* volume proportion 60 against a threshold of 50: SELL
C21_Witness ==
    /\ Returned("_is_sell_signal")
    /\ call.args.row.vol_open_low = -250
    /\ call.args.row.btc_vol = 5 /\ call.args.params.short_btc = 3
    /\ call.args.row.volume_usdt_btc_prop = 600
    /\ call.args.params.volume_prop = 500
    /\ call.result.value

(* ------------------------- short and empty windows -------------------- *)
MratBuy == "MratZscoreStrategy._is_buy_signal"

\* C22: on an empty frame the candidate evaluation gives NONE, and on a
\* window of fewer than 3 rows the z-score BUY predicate gives false; neither
\* raises an indexing error
C22_ShortWindowsGiveNone ==
    /\ Returned("_process_candidate_symbol") /\ call.args = <<>> =>
           call.result = [kind |-> "OrderSide", value |-> NONE]
    /\ Returned(MratBuy) /\ Len(call.args.df) < 3 =>
           call.result = Bool(FALSE)

\* C23: on a window of at least 3 rows _is_buy_signal is true exactly when a
\* row of the last `lookback` rows has a z-score at or below -threshold, the
\* previous candle has a higher close and a higher high than the candle two
\* back, and on the last row the filter average is below the slow average
C23_ZScoreBuyPredicate ==
    Returned(MratBuy) /\ Len(call.args.df) >= 3 =>
        LET df == call.args.df
            n == Len(df)
        IN  /\ call.result.kind = "bool"
            /\ call.result.value <=>
                   /\ \E i \in 1..n :
                          /\ i > n - call.args.lookback
                          /\ df[i].z_score_mrat <= 0 - call.args.z_score_threshold
                   /\ df[n - 1].close > df[n - 2].close
                   /\ df[n - 1].high > df[n - 2].high
                   /\ df[n].filter_ma < df[n].slow_ma

(* ----------------------------- close check ---------------------------- *)
\* the close branch sent a close order
CloseOrderSent ==
    /\ Returned("MratZscoreStrategy.run (close)")
    /\ call.result.kind = "create_order"

\* C24: a close order is sent only when the symbol has a position with a
\* reported unrealized PnL, no open order, a PnL percentage at or above the
\* take-profit threshold, a row of the lookback window with a z-score at or
\* above the sell threshold, and a previous candle whose high is below the
\* high two candles back
C24_CloseOnlyWhenAllHold ==
    CloseOrderSent =>
        LET a == call.args
            n == Len(a.df)
        IN  /\ a.position.kind = "position"
            /\ a.position.unrealizedPnl # None
            /\ a.n_open_orders = 0
            /\ a.position.percentage.num
                   >= a.tp_threshold * a.position.percentage.den
            /\ \E i \in 1..n : /\ i > n - a.lookback
                               /\ a.df[i].z_score_mrat >= a.z_score_threshold
            /\ n >= 3
            /\ a.df[n - 1].high < a.df[n - 2].high

\* a close order was sent
C24_Witness == CloseOrderSent /\ call.args.n_open_orders = 0

\* ---------------------------------------------------------------------
\* C25. With more candidates than remaining slots k, the iteration of the
\* daily-RSI strategy processes the k candidates with the largest
\* abs_diff_rsi, in descending order, whatever the order in which the
\* exchange returned the symbols.
\* ---------------------------------------------------------------------

RsiRun == "RsiDailyStrategy.run"

\* rows are k rows of df, in descending order of the jump, and no row
\* left out has a larger jump than a row taken
IsTopK(rows, df, k) ==
    /\ Len(rows) = (IF k < Len(df) THEN k ELSE Len(df))
    /\ \A i \in 1..Len(rows) : \E j \in 1..Len(df) : df[j] = rows[i]
    /\ \A i, j \in 1..Len(rows) :
           i < j => /\ rows[i].abs_diff_rsi >= rows[j].abs_diff_rsi
                    /\ rows[i] # rows[j]
    /\ \A j \in 1..Len(df) :
           (\A i \in 1..Len(rows) : rows[i] # df[j])
               => \A i \in 1..Len(rows) :
                      rows[i].abs_diff_rsi >= df[j].abs_diff_rsi

C25_LargestJumpsFirst ==
    Returned(RsiRun) /\ Len(call.args.df) > call.args.slots
        => /\ call.result.kind = "processed"
           /\ IsTopK(call.result.rows, call.args.df, call.args.slots)

\* ---------------------------------------------------------------------
\* C26. _process_signal of the daily-RSI strategy submits no open order
\* for a symbol when the exchange already reports at least
\* max_simultaneous_positions positions, nor when it reports a position
\* on that symbol.
\* ---------------------------------------------------------------------

RsiProcessSignal == "RsiDailyStrategy._process_signal"

OpenOrderSent ==
    /\ Returned(RsiProcessSignal)
    /\ call.result = [kind |-> "create_order", trade_side |-> "open"]

Diff == "ListingBackrunStrategy.run (diff)"

occurs(s, l) == \E i \in 1..Len(l) : l[i] = s

C27_NewSymbolsAreSetDifference ==
    Returned(Diff) =>
        LET new == call.result.value
        IN  /\ \A s \in 1..MaxCandidates :
                   occurs(s, new)
                       <=> /\ occurs(s, call.args.exchange_update_symbols)
                           /\ ~occurs(s, call.args.exchange_symbols)
            /\ \A i, j \in 1..Len(new) : new[i] = new[j] => i = j

\* a universe with a repeated new symbol and a known one, in an order
\* other than that of the known list
C27_Witness ==
    /\ Returned(Diff)
    /\ call.args.exchange_update_symbols = <<3, 1, 3>>
    /\ call.args.exchange_symbols = <<1, 2>>
    /\ call.result.value = <<3>>

\* ---------------------------------------------------------------------
\* BitgetExchange.fetch_all_symbols_ohlcv: one call, its semaphore and the
\* tasks gather runs. `call` is the activation: the arguments, the locals
\* (semaphore, the tasks of gather, the frames collected) and the result.
\* The event loop runs the ready tasks in the order in which they became
\* ready; fetch_ohlcv_df is a plain function, so a task that holds a
\* permit keeps the loop until it has left the `async with` block.
\* ---------------------------------------------------------------------

\* bound: the symbols fetch_all_symbol_names returns
MaxSymbolList == 22

\* asyncio.Semaphore(20)
semaphore_permits == 20

\* the share of failed symbols that is logged, in tenths
failed_share_logged == 1

FetchAll == "fetch_all_symbols_ohlcv"

\* fetch_ohlcv_df returns the window, returns fewer rows, or raises
FetchOutcomes == {"data", "short", "raises"}

\* mutant: the permit is kept when the fetch raised
aexit_keeps_permit_on_error(value, outcome) ==
    IF outcome = "raises" THEN value ELSE value + 1

\* Semaphore.__aexit__: release(), whatever happened in the block
aexit(value, outcome) == value + 1

RECURSIVE range(_, _)
range(a, b) == IF a > b THEN <<>> ELSE <<a>> \o range(a + 1, b)

\* symbol_list = self.fetch_all_symbol_names() (the empty list when the
\* tickers could not be fetched); semaphore = asyncio.Semaphore(20)
InitFetchAll ==
    /\ InitExchange
    /\ InitRun
    /\ strategy = "RsiDailyStrategy"
    /\ failures = 0
    /\ \E n \in 0..MaxSymbolList :
          call = [function |-> FetchAll,
                  args |-> [symbol_list |-> n],
                  result |-> Pending,
                  pc |-> "start",
                  semaphore |-> [value |-> semaphore_permits,
                                 waiters |-> <<>>],
                  ready |-> <<>>,
                  current |-> [task |-> 0, outcome |-> "none"],
                  inside |-> 0,
                  attempted |-> 0,
                  raised |-> 0,
                  valid |-> 0,
                  done |-> 0]

fetch_all_unchanged ==
    UNCHANGED <<exchange_vars, database, cpu, run_vars, tasks, strategy,
                failures>>

\* tasks = [fetch_symbol_ohlcv(semaphore, symbol) for symbol in symbol_list]
\* await asyncio.gather(*tasks): one task per symbol, ready in list order
Gather ==
    /\ call.function = FetchAll
    /\ call.pc = "start"
    /\ call' = [call EXCEPT !.pc = "gather",
                            !.ready = range(1, call.args.symbol_list)]
    /\ fetch_all_unchanged

\* the next ready task enters `async with semaphore`: acquire() takes a
\* permit without suspending when one is left, else the task waits
TaskAcquire ==
    /\ call.function = FetchAll
    /\ call.pc = "gather"
    /\ call.current.task = 0
    /\ call.ready # <<>>
    /\ LET t == Head(call.ready)
       IN  IF call.semaphore.value > 0
           THEN call' = [call EXCEPT
                    !.ready = Tail(call.ready),
                    !.semaphore.value = call.semaphore.value - 1,
                    !.inside = call.inside + 1,
                    !.current = [task |-> t, outcome |-> "none"]]
           ELSE call' = [call EXCEPT
                    !.ready = Tail(call.ready),
                    !.semaphore.waiters = Append(call.semaphore.waiters, t)]
    /\ fetch_all_unchanged

\* data = self.fetch_ohlcv_df(...): the window is returned, a shorter
\* frame gives None, an exception is logged and gives None
TaskFetch ==
    /\ call.function = FetchAll
    /\ call.current.task # 0
    /\ call.current.outcome = "none"
    /\ \E outcome \in FetchOutcomes :
          call' = [call EXCEPT
              !.current.outcome = outcome,
              !.attempted = call.attempted + 1,
              !.raised = call.raised + (IF outcome = "raises" THEN 1 ELSE 0),
              !.valid = call.valid + (IF outcome = "data" THEN 1 ELSE 0)]
    /\ fetch_all_unchanged

\* the block is left: the permit goes back, the first waiter becomes
\* ready, the task is done
TaskExit ==
    /\ call.function = FetchAll
    /\ call.current.task # 0
    /\ call.current.outcome # "none"
    /\ LET value == aexit(call.semaphore.value, call.current.outcome)
           wake == value > call.semaphore.value
                   /\ call.semaphore.waiters # <<>>
       IN  call' = [call EXCEPT
               !.semaphore.value = value,
               !.semaphore.waiters =
                   IF wake THEN Tail(call.semaphore.waiters)
                   ELSE call.semaphore.waiters,
               !.ready = IF wake
                         THEN Append(call.ready, Head(call.semaphore.waiters))
                         ELSE call.ready,
               !.inside = call.inside - 1,
               !.current = [task |-> 0, outcome |-> "none"],
               !.done = call.done + 1]
    /\ fetch_all_unchanged

\* gather returns when every task is done; the share of failed symbols is
\* computed (a division by len(symbol_list)) and the frames are returned
GatherReturns ==
    /\ call.function = FetchAll
    /\ call.pc = "gather"
    /\ call.current.task = 0
    /\ call.done = call.args.symbol_list
    /\ call' = [call EXCEPT
           !.pc = "returned",
           !.result =
               IF call.args.symbol_list = 0 THEN ZeroDivisionError
               ELSE [kind |-> "DataFrame", symbols |-> call.valid,
                     logged |->
                         10 * (call.args.symbol_list - call.valid)
                             > failed_share_logged * call.args.symbol_list]]
    /\ fetch_all_unchanged

NextFetchAll ==
    \/ Gather
    \/ TaskAcquire
    \/ TaskFetch
    \/ TaskExit
    \/ GatherReturns

SpecFetchAll == InitFetchAll /\ [][NextFetchAll]_vars

\* ---------------------------------------------------------------------
\* C28. During fetch_all_symbols_ohlcv at most 20 fetches are inside the
\* block the semaphore guards, for any number of symbols; every permit
\* taken is given back, also when the fetch raises; and every symbol is
\* attempted: the call does not stop before all of them were.
\* ---------------------------------------------------------------------

C28_RateLimitGate ==
    /\ call.inside <= semaphore_permits
    /\ call.inside + call.semaphore.value = semaphore_permits
    /\ call.current.task = 0 => call.inside = 0
    /\ call.pc = "returned" => call.attempted = call.args.symbol_list
    /\ call.pc # "returned" => ENABLED NextFetchAll

\* more symbols than permits, more fetches raised than there are permits,
\* and the call has returned
C28_Witness ==
    /\ call.function = FetchAll
    /\ call.pc = "returned"
    /\ call.args.symbol_list > semaphore_permits
    /\ call.raised > semaphore_permits
    /\ call.attempted = call.args.symbol_list

\* ---------------------------------------------------------------------
\* C29. TelegramNotifier.send_message and send_image return normally
\* whatever error the transport raises, a timeout or any other exception:
\* a failed notification does not propagate to the caller.
\* ---------------------------------------------------------------------

NotifierCall ==
    call.function \in {"TelegramNotifier.send_message",
                       "TelegramNotifier.send_image"}

C29_NotifierNeverRaises ==
    NotifierCall /\ call.result # Pending => call.result.kind = "returns"

\* the transport failed with something other than a timeout and the call
\* returned
C29_Witness ==
    /\ NotifierCall
    /\ call.args = "NetworkError"
    /\ call.result = [kind |-> "returns", printed |-> TRUE]

\* ---------------------------------------------------------------------
\* C30. Opening a position applies margin mode and leverage before the
\* order is submitted: set_margin_mode first; then, isolated, set_leverage
\* for the long side, set_leverage for the short side and the check of
\* the leverage the exchange reports, or, cross, a single set_leverage;
\* create_order is called only after these calls.
\* ---------------------------------------------------------------------

OpenCalls == "_open_position_order (session calls)"

SettingsCalls(margin_mode) ==
    IF margin_mode = "isolated"
    THEN <<"set_margin_mode", "set_leverage long", "set_leverage short",
           "fetch_leverage", "assert">>
    ELSE <<"set_margin_mode", "set_leverage">>

\* the names of the calls made before the i-th one
CallsBefore(calls, i) == [k \in 1..(i - 1) |-> calls[k].call]

C30_SettingsBeforeOrder ==
    Returned(OpenCalls) =>
        \A i \in 1..Len(call.result.calls) :
            call.result.calls[i].call = "create_order"
                => CallsBefore(call.result.calls, i)
                       = SettingsCalls(call.args.margin_mode)

\* ---------------------------------------------------------------------
\* C31. When the exchange rejects an order, create_order logs the error
\* and fails without retrying: the session's create_order is invoked
\* exactly once per call, and the caller can tell the failure from an
\* accepted order.
\* ---------------------------------------------------------------------

CreateOrder == "BitgetExchange.create_order"

C31_OneAttemptFailureVisible ==
    Returned(CreateOrder) =>
        /\ Len(call.result.calls) = 1
        /\ call.args # "ok" => /\ call.result.logged
                               /\ call.result.kind # "order"

\* the exchange rejected the order (insufficient funds)
C31_Witness ==
    /\ Returned(CreateOrder)
    /\ call.args = "InsufficientFunds"
    /\ call.result.kind = "None"
    /\ call.result.logged

\* ---------------------------------------------------------------------
\* C32. Configuration is validated at construction: a percentage
\* (stop_loss_pct, take_profit_pct, equity_trade_pct) outside [0, 100] is
\* rejected, and MRAT parameters are rejected unless
\* fast_ma_length < slow_ma_length < filter_ma_length, also when some of
\* the lengths are omitted and take their defaults; no parameters
\* violating these relations are ever constructed.
\* ---------------------------------------------------------------------

Constructed(class) == Returned(class) /\ call.result.kind = class

C32_ValidatedAtConstruction ==
    /\ Returned("TradingParams") =>
           (~Constructed("TradingParams")
               <=> \E pct \in {call.args.stop_loss_pct,
                               call.args.take_profit_pct,
                               call.args.equity_trade_pct} :
                       pct < 0 \/ pct > 100)
    /\ Returned("MratZscoreStrategyParams") =>
           (~Constructed("MratZscoreStrategyParams")
               <=> ~(/\ call.args.fast_ma_length < call.args.slow_ma_length
                     /\ call.args.slow_ma_length
                            < call.args.filter_ma_length))

\* ---------------------------------------------------------------------
\* C33. The net_profit of the persisted Position is exactly the text of
\* the netProfit of the history record that triggered the close, with no
\* rounding or reformatting, and symbol, open price, close price and hold
\* side are those of that same record.
\* ---------------------------------------------------------------------

ClosingPosition == "monitor_position_closing (Position)"

Persisted == Returned(ClosingPosition) /\ call.result.kind = "Position"

MratExposure ==
    open_orders[mrat_symbol]
        + (IF positions[mrat_symbol] # NoPosition THEN 1 ELSE 0)

C34_NoOpenOrderWhileExposed ==
    strategy = "MratZscoreStrategy" => MratExposure <= 1

\* ---------------------------------------------------------------------
\* C35. A lifecycle task (monitor_position) is started for a symbol only
\* after its order was accepted by the exchange: after a rejection, or
\* any failure of create_order, no monitor is started for that signal.
\* ---------------------------------------------------------------------

C35_MonitorOnlyAfterAcceptedOrder ==
    strategy = "MratZscoreStrategy" =>
        \A t \in 1..Len(tasks) : tasks[t].lpc # "none" => tasks[t].order

\* ---------------------------------------------------------------------
\* C36. The opening monitor started through monitor_position always uses
\* the default timeout of 600 seconds, counted from the start of the
\* monitoring; the configured trading_params.order_timeout has no
\* influence: no timeout is reported before 600 seconds have passed, and
\* no monitor is still polling one iteration after them.
\* ---------------------------------------------------------------------

C37_DispatchedAtMostOnce ==
    strategy = "ListingBackrunStrategy" =>
        \A i, j \in Tasks : tasks[i].symbol = tasks[j].symbol => i = j


\* ---------------------------------------------------------------------
\* C38. One run of _process_candidate_symbol submits at most one order and
\* starts at most one lifecycle task for its symbol: once a signal other
\* than NONE has been processed the evaluation loop is over, so a task that
\* still evaluates has posted no order and started no monitor.
\* ---------------------------------------------------------------------

C38_OneOrderPerCandidate ==
    strategy = "ListingBackrunStrategy" =>
        \A t \in Tasks :
            /\ tasks[t].sent.posted <= 1
            /\ tasks[t].cpc \in {"ready", "eval"} =>
                   /\ tasks[t].sent.posted = 0
                   /\ tasks[t].lpc = "none"
                   /\ "create_order" \notin tasks[t].calls

\* a candidate whose signal fired: one order posted, the monitor started,
\* the final KPIs sent
C38_Witness ==
    \E t \in Tasks :
        /\ tasks[t].cpc = "kpis"
        /\ tasks[t].sent.posted = 1
        /\ tasks[t].sent.kpis = 1
        /\ tasks[t].lpc # "none"


\* ---------------------------------------------------------------------
\* C39. Candidate processing terminates also when no signal fires: a
\* candidate that has found no signal so far can leave its evaluation loop
\* and send the final KPIs without a BUY or SELL signal, on the frames the
\* default window gives (one row at most).
\* ---------------------------------------------------------------------

\* an iteration of the evaluation loop of task t that ends the loop with the
\* final KPIs and without an order
LeavesWithoutSignal(t) ==
    /\ CandidateEval(t)
    /\ tasks'[t].cpc = "kpis"
    /\ tasks'[t].sent.posted = 0

C39_CandidateLoopCanEnd ==
    strategy = "ListingBackrunStrategy" =>
        \A t \in Tasks : tasks[t].cpc = "eval" => ENABLED LeavesWithoutSignal(t)


\* ---------------------------------------------------------------------
\* C40. set_margin_mode_and_leverage never propagates a failure: whichever
\* of its calls fails (the margin mode, a leverage, the check of the
\* leverage the exchange reports), the caller goes on to create_order, once,
\* and what _open_position_order returns depends on create_order alone.
\* ---------------------------------------------------------------------

C40_OrderSubmittedWhateverSettings ==
    Returned(OpenCalls) =>
        LET calls == call.result.calls IN
        /\ calls[Len(calls)].call = "create_order"
        /\ \A i \in 1..(Len(calls) - 1) : calls[i].call # "create_order"
        /\ call.result.kind = "order" <=> call.args.session.create_order = "ok"

\* isolated margin: the margin mode and the long leverage were refused, and
\* the order was submitted and accepted
C40_Witness ==
    /\ Returned(OpenCalls)
    /\ call.args.margin_mode = "isolated"
    /\ call.args.session.set_margin_mode = "raises"
    /\ call.args.session.set_leverage["long"] = "raises"
    /\ call.result.calls = <<[call |-> "set_margin_mode", raised |-> TRUE],
                             [call |-> "set_leverage long", raised |-> TRUE],
                             [call |-> "create_order", raised |-> FALSE]>>
    /\ call.result.kind = "order"

====
